---- MODULE Spec2Model ----
(***************************************************************************)
(* Verification model of the movie-generation-platform tool services:      *)
(*   - mcp-video-generation-service : synthesize_video_segments            *)
(*   - mcp-video-editor-service     : assemble_video                       *)
(*   - mcp-story-architect-service  : draft_story_arc                      *)
(*   - tests/generate_test_report.py : main() of the report generator      *)
(* Each service has its own specification (SpecSynth, SpecAssemble,        *)
(* SpecDraft), and so has each component checked on its own (SpecSeed,     *)
(* SpecServer, SpecSelect, SpecChars, SpecSeedGen, SpecGrouping,           *)
(* SpecWorkdir, SpecLlmConfig, SpecTags, SpecBeats, SpecReport); the       *)
(* variables a specification does not exercise stay at their idle values.  *)
(*                                                                         *)
(* Times are fixed-point: one unit is a tenth of a second (30 = 3.0 s).    *)
(***************************************************************************)
EXTENDS Integers, Sequences, FiniteSets, TLC

(***************************************************************************)
(* Bounds of the model                                                     *)
(***************************************************************************)
MaxFrames == 3

MaxSegmentsIn == 4

MaxCallers == 2

MaxSeedCalls == 2

MaxSignals == 2

MaxRoster == 2

MaxSeedGenCalls == 2

MaxGroupFrames == 4

MaxClock == 2

MaxTags == 4

MaxBeats == 4

(***************************************************************************)
(* Generic helpers                                                         *)
(***************************************************************************)
None == <<>>

Some(x) == <<x>>

Max2(a, b) == IF a >= b THEN a ELSE b

Min2(a, b) == IF a <= b THEN a ELSE b

SeqsUpTo(S, n) == UNION { [1..k -> S] : k \in 0..n }

Prefix(s, n) == SubSeq(s, 1, Min2(n, Len(s)))

RECURSIVE SumSeq(_)
SumSeq(s) == IF s = <<>> THEN 0 ELSE Head(s) + SumSeq(Tail(s))

(***************************************************************************)
(* State                                                                   *)
(***************************************************************************)
VARIABLES
  \* ---- video generation: _handle_synthesize
  arguments,        \* the argument object of synthesize_video_segments
  sy_pc,            \* position of _handle_synthesize
  duration,         \* resolved duration per segment
  segment_specs,    \* to_segment_specs(chunks)
  sy_idx,           \* index of the spec the for-loop is at
  provider_calls,   \* calls made to FalAIVideoClient.synthesize, in order
  video_segments,
  failed_segments,
  sy_result,        \* value returned by _handle_synthesize
  \* ---- video editor: AssembleVideoTool.execute
  input_data,       \* the argument object of assemble_video
  av_pc,            \* position of execute
  temp_root_exists, \* the request's working directory exists
  files,            \* names of the files under the working directory
  timeline,         \* the TimelineEvent list
  av_idx,           \* index of the segment _download_segments is at
  av_trace,         \* external steps performed by the request, in order
  av_failure,       \* the failure that aborted the pipeline, if any
  av_pending,       \* value the try/except chose to return
  unlink_attempted, \* files whose deletion the finally block attempted
  rmdir_attempted,  \* the finally block attempted to remove the directory
  av_result,        \* value returned by execute
  \* ---- story architect: DraftStoryArcTool.execute
  ds_input,         \* the argument object of draft_story_arc
  py_has_coroutine,
  ds_config,        \* the word limits of the configuration
  continuity_flags, \* the flags _validate_and_process_arc has collected \* the interpreter still provides asyncio.coroutine
  ds_pc,            \* position of execute
  trace_context,    \* the TraceContext extracted at line 191
  fetch,            \* state of the three coroutines handed to asyncio.gather
  prompt_template,  \* results[0] after the gather
  character_roster, \* results[1] after the gather
  seed,             \* results[2] after the gather
  rendered_prompt,  \* the prompt rendered from the template
  llm_calls,        \* number of chat.completions.create calls made
  raw_story_arc,    \* what json.loads made of the LLM content
  ds_trace,         \* pipeline stages entered by the request, in order
  ds_failure,       \* the exception that ended the pipeline, if any
  ds_result,        \* value returned by execute
  \* ---- story architect: PayloadCMSService.get_or_create_seed
  seed_docs,        \* the CMS seed records of the triple, in creation order
  sc_pc,            \* position of each caller's get_or_create_seed
  sc_found,         \* the document each caller's lookup returned
  sc_calls,         \* calls each caller has started
  sc_ret,           \* what each caller's last finished call returned
  \* ---- story architect: StoryArchitectMCPServer
  srv_config,       \* the configuration object the server runs with
  srv_pc,           \* position of start()
  handlers_installed, \* the SIGTERM/SIGINT handlers are installed
  is_running,       \* self._is_running
  shutdown_event,   \* self._shutdown_event is set
  signals_handled,  \* signals _signal_handler has been run for
  srv_error,        \* the exception start() re-raises, if any
  hc_pc,            \* position of a health_check tool call
  hc_cms,           \* what the CMS does to the GET /health of that call
  health_details,   \* the dict _check_health fills
  hc_result,        \* value the health_check tool returned
  \* ---- story architect: template selection
  sel_templates,    \* docs handed to _select_best_template
  sel_criteria,     \* the PromptSelectionCriteria
  sel_pc,
  sel_result,       \* the selected template, if any
  \* ---- story architect: character validation
  cv_roster,        \* character_roster
  cv_refs,          \* referenced_characters
  cv_strict,        \* config.strict_character_validation
  cv_pending,       \* candidates the loop has not visited yet
  found_characters,
  unknown_characters,
  cv_flags,         \* continuity_flags of validate_story_arc
  cv_pc,
  \* ---- story architect: seed derivation
  sg_enabled,       \* config.deterministic_seed_enabled
  sg_input,         \* the request fields of the running call
  sg_history,       \* the finished calls
  sg_pc,
  \* ---- video generation: the grouping called on its own
  gr_frames,        \* generated_frames
  gr_chunk_size,    \* default_chunk_size
  gr_duration,      \* duration_per_segment, tenths of a second
  gr_max_runtime,   \* max_total_runtime, tenths of a second
  gr_pc,
  gr_result         \* the returned chunks

VARIABLES
  \* ---- video editor: concurrent executions on one temp_dir
  wd_clock,         \* what datetime.utcnow() shows, in microseconds
  wd_req,           \* the request of each execution
  wd_pc,            \* position of each execution
  wd_request_id,    \* request_id of each execution
  wd_idx,           \* segment each _download_segments loop is at
  wd_dirs,          \* directories that exist under temp_dir
  wd_files,         \* files under temp_dir: directory, name, writer
  wd_harmed,        \* executions that lost a file to another one
  \* ---- story architect: effective_llm_config
  lc_config,        \* the StoryArchitectConfig
  lc_pc,
  lc_result,        \* the dict the property returned
  \* ---- story architect: ConceptBrief tag arrays
  tg_field,         \* the validated field
  tg_input,         \* the list given for it
  tg_pc,
  tg_stored,        \* the list the validated model holds
  \* ---- story architect: StoryArc emotional beats
  eb_input,         \* emotional_beats of the LLM answer
  eb_pc,
  eb_stored,        \* emotional_beats of the validated arc
  \* ---- tests: the report generator's main()
  rp_pc,
  rp_outcome,       \* what the test phases found
  rp_report,        \* the report run_comprehensive_tests returned
  rp_raised,        \* the call of main() that raised, if any
  rp_exit           \* the process exit code

synthVars == << arguments, sy_pc, duration, segment_specs, sy_idx,
                provider_calls, video_segments, failed_segments, sy_result >>

editorVars == << input_data, av_pc, temp_root_exists, files, timeline,
                 av_idx, av_trace, av_failure, av_pending,
                 unlink_attempted, rmdir_attempted, av_result >>

draftVars == << ds_input, py_has_coroutine, ds_config, continuity_flags,
                ds_pc, trace_context, fetch, prompt_template,
                character_roster, seed, rendered_prompt, llm_calls,
                raw_story_arc, ds_trace, ds_failure, ds_result >>

seedVars == << seed_docs, sc_pc, sc_found, sc_calls, sc_ret >>

serverVars == << srv_config, srv_pc, handlers_installed, is_running,
                 shutdown_event, signals_handled, srv_error, hc_pc, hc_cms,
                 health_details, hc_result >>

selectVars == << sel_templates, sel_criteria, sel_pc, sel_result >>

charsVars == << cv_roster, cv_refs, cv_strict, cv_pending,
                found_characters, unknown_characters, cv_flags, cv_pc >>

seedGenVars == << sg_enabled, sg_input, sg_history, sg_pc >>

groupingVars == << gr_frames, gr_chunk_size, gr_duration, gr_max_runtime,
                   gr_pc, gr_result >>

workdirVars == << wd_clock, wd_req, wd_pc, wd_request_id, wd_idx, wd_dirs,
                  wd_files, wd_harmed >>

llmConfigVars == << lc_config, lc_pc, lc_result >>

tagsVars == << tg_field, tg_input, tg_pc, tg_stored >>

beatsVars == << eb_input, eb_pc, eb_stored >>

reportVars == << rp_pc, rp_outcome, rp_report, rp_raised, rp_exit >>

vars == << synthVars, editorVars, draftVars, seedVars, serverVars,
           selectVars, charsVars, seedGenVars, groupingVars, workdirVars,
           llmConfigVars, tagsVars, beatsVars, reportVars >>

notSynth == << editorVars, draftVars, seedVars, serverVars, selectVars,
               charsVars, seedGenVars, groupingVars, workdirVars,
               llmConfigVars, tagsVars, beatsVars, reportVars >>

notEditor == << synthVars, draftVars, seedVars, serverVars, selectVars,
                charsVars, seedGenVars, groupingVars, workdirVars,
                llmConfigVars, tagsVars, beatsVars, reportVars >>

notDraft == << synthVars, editorVars, seedVars, serverVars, selectVars,
               charsVars, seedGenVars, groupingVars, workdirVars,
               llmConfigVars, tagsVars, beatsVars, reportVars >>

notSeed == << synthVars, editorVars, draftVars, serverVars, selectVars,
              charsVars, seedGenVars, groupingVars, workdirVars,
              llmConfigVars, tagsVars, beatsVars, reportVars >>

notServer == << synthVars, editorVars, draftVars, seedVars, selectVars,
                charsVars, seedGenVars, groupingVars, workdirVars,
                llmConfigVars, tagsVars, beatsVars, reportVars >>

notSelect == << synthVars, editorVars, draftVars, seedVars, serverVars,
                charsVars, seedGenVars, groupingVars, workdirVars,
                llmConfigVars, tagsVars, beatsVars, reportVars >>

notChars == << synthVars, editorVars, draftVars, seedVars, serverVars,
               selectVars, seedGenVars, groupingVars, workdirVars,
               llmConfigVars, tagsVars, beatsVars, reportVars >>

notSeedGen == << synthVars, editorVars, draftVars, seedVars, serverVars,
                 selectVars, charsVars, groupingVars, workdirVars,
                 llmConfigVars, tagsVars, beatsVars, reportVars >>

notGrouping == << synthVars, editorVars, draftVars, seedVars, serverVars,
                  selectVars, charsVars, seedGenVars, workdirVars,
                  llmConfigVars, tagsVars, beatsVars, reportVars >>

notWorkdir == << synthVars, editorVars, draftVars, seedVars, serverVars,
                 selectVars, charsVars, seedGenVars, groupingVars,
                 llmConfigVars, tagsVars, beatsVars, reportVars >>

notLlmConfig == << synthVars, editorVars, draftVars, seedVars, serverVars,
                   selectVars, charsVars, seedGenVars, groupingVars,
                   workdirVars, tagsVars, beatsVars, reportVars >>

notTags == << synthVars, editorVars, draftVars, seedVars, serverVars,
              selectVars, charsVars, seedGenVars, groupingVars,
              workdirVars, llmConfigVars, beatsVars, reportVars >>

notBeats == << synthVars, editorVars, draftVars, seedVars, serverVars,
               selectVars, charsVars, seedGenVars, groupingVars,
               workdirVars, llmConfigVars, tagsVars, reportVars >>

notReport == << synthVars, editorVars, draftVars, seedVars, serverVars,
                selectVars, charsVars, seedGenVars, groupingVars,
                workdirVars, llmConfigVars, tagsVars, beatsVars >>

(***************************************************************************)
(* ======================  VIDEO GENERATION SERVICE  ===================== *)
(***************************************************************************)

\* schemas.VideoSettings.duration_per_segment default, and the handler's
\* default when no video_settings is given (3.0 s)
DefaultDuration == 30

\* max_total_runtime the handler passes to the grouping (12.0 s)
MaxTotalRuntime == 120

\* MVP cap on the number of segments
MvpMaxSegments == 3

\* default_chunk_size the handler passes to the grouping
DefaultChunkSize == 2

\* GeneratedFrame values a request draws its frames from.  Two frames carry
\* the same frame_id "A" with different image urls and sort keys.
FramePool ==
  { [frame_id |-> "A", image_url |-> "urlA1", scene_number |-> 1, shot_order |-> 1],
    [frame_id |-> "B", image_url |-> "urlB",  scene_number |-> 1, shot_order |-> 2],
    [frame_id |-> "C", image_url |-> "urlC",  scene_number |-> 2, shot_order |-> 1],
    [frame_id |-> "A", image_url |-> "urlA2", scene_number |-> 3, shot_order |-> 1] }

\* StoryboardFrame lists a request may carry (frame_id, description)
StoryboardChoices ==
  { <<>>,
    << [frame_id |-> "A", description |-> "descA"],
       [frame_id |-> "C", description |-> "descC"] >> }

\* messages of the exceptions the provider call may raise
ProviderErrors == { "timeout", "quota exceeded" }

\* duration_per_segment values of video_settings (tenths of a second)
Durations == { -10, 0, 25, 30, 50, 120, 125 }

\* video_settings: absent, or a VideoSettings with a duration_per_segment
VideoSettingsChoices == { None } \cup { Some(d) : d \in Durations }

\* sorted(generated_frames, key=(scene_number, shot_order)): stable
FrameKeyLess(a, b) ==
  \/ a.scene_number < b.scene_number
  \/ a.scene_number = b.scene_number /\ a.shot_order < b.shot_order

RECURSIVE InsertSorted(_, _)
InsertSorted(f, s) ==
  IF s = <<>> THEN <<f>>
  ELSE IF FrameKeyLess(f, Head(s)) THEN <<f>> \o s
  ELSE <<Head(s)>> \o InsertSorted(f, Tail(s))

\* the frames taken in request order, without the sort
SortFrames_Unsorted(frames) == frames

RECURSIVE SortFrames(_)
SortFrames(frames) ==
  IF frames = <<>> THEN <<>>
  ELSE InsertSorted(frames[Len(frames)], SortFrames(SubSeq(frames, 1, Len(frames) - 1)))

\* the walk of group_frames_into_segments over the sorted frames
RECURSIVE WalkFrames(_, _, _, _, _)
WalkFrames(rest, chunks, current, current_scene, chunk_size) ==
  IF rest = <<>>
  THEN IF current # <<>> THEN Append(chunks, current) ELSE chunks
  ELSE LET fr      == Head(rest)
           scene0  == IF current_scene = None THEN fr.scene_number ELSE current_scene[1]
           changed == fr.scene_number # scene0
           chunks1 == IF changed /\ current # <<>> THEN Append(chunks, current) ELSE chunks
           cur1    == IF changed /\ current # <<>> THEN <<>> ELSE current
           cur2    == Append(cur1, fr)
           full    == Len(cur2) >= Max2(1, chunk_size)
       IN  WalkFrames(Tail(rest),
                      IF full THEN Append(chunks1, cur2) ELSE chunks1,
                      IF full THEN <<>> ELSE cur2,
                      Some(fr.scene_number),
                      chunk_size)

\* max_segments = max(1, min(3, int(max_total_runtime // duration_per_segment)))
\* the cap without its floor of one segment
MaxSegments_NoFloor(duration_per_segment, max_total_runtime) ==
  LET d == IF duration_per_segment <= 0 THEN DefaultDuration ELSE duration_per_segment
  IN  Min2(MvpMaxSegments, max_total_runtime \div d)

\* the cap with the MVP ceiling alone, the runtime left out
MaxSegments_NoRuntimeCap(duration_per_segment, max_total_runtime) ==
  Max2(1, MvpMaxSegments)

MaxSegments(duration_per_segment, max_total_runtime) ==
  LET d == IF duration_per_segment <= 0 THEN DefaultDuration ELSE duration_per_segment
  IN  Max2(1, Min2(MvpMaxSegments, max_total_runtime \div d))

group_frames_into_segments(frames, default_chunk_size, duration_per_segment, max_total_runtime) ==
  IF frames = <<>> THEN <<>>
  ELSE LET chunks == WalkFrames(SortFrames(frames), <<>>, <<>>, None, default_chunk_size)
           capped == Prefix(chunks, MaxSegments(duration_per_segment, max_total_runtime))
       IN  [i \in 1..Len(capped) |-> Prefix(capped[i], 2)]

to_segment_specs(chunks) ==
  [i \in 1..Len(chunks) |->
     [segment_id |-> "SEGMENT_" \o ToString(i),
      frame_ids  |-> [j \in 1..Len(chunks[i]) |-> chunks[i][j].frame_id]]]

\* next((f for f in seq if f.frame_id == id), None)
RECURSIVE FirstWithId(_, _)
FirstWithId(seq, id) ==
  IF seq = <<>> THEN None
  ELSE IF Head(seq).frame_id = id THEN Some(Head(seq))
  ELSE FirstWithId(Tail(seq), id)

SynthIdle ==
  /\ arguments = [valid |-> FALSE, generated_frames |-> <<>>,
                  storyboard_frames |-> <<>>, video_settings |-> None]
  /\ sy_pc = "idle"
  /\ duration = 0
  /\ segment_specs = <<>>
  /\ sy_idx = 0
  /\ provider_calls = <<>>
  /\ video_segments = <<>>
  /\ failed_segments = <<>>
  /\ sy_result = None

\* Requests: a schema-invalid one, and every schema-valid combination
SynthRequests ==
  { [valid |-> FALSE, generated_frames |-> <<>>, storyboard_frames |-> <<>>,
     video_settings |-> None] }
  \cup
  [valid : {TRUE},
   generated_frames : SeqsUpTo(FramePool, MaxFrames),
   storyboard_frames : StoryboardChoices,
   video_settings : VideoSettingsChoices]

SynthStart ==
  /\ arguments \in SynthRequests
  /\ sy_pc = "start"
  /\ duration = 0
  /\ segment_specs = <<>>
  /\ sy_idx = 0
  /\ provider_calls = <<>>
  /\ video_segments = <<>>
  /\ failed_segments = <<>>
  /\ sy_result = None

\* RequestPayload(**arguments) raises ValidationError out of the handler
SynthRejectInput ==
  /\ sy_pc = "start"
  /\ ~arguments.valid
  /\ sy_pc' = "raised"
  /\ UNCHANGED notSynth
  /\ UNCHANGED << arguments, duration, segment_specs, sy_idx, provider_calls,
                  video_segments, failed_segments, sy_result >>

\* lines 38-56: validate, resolve duration, group, build the specs
SynthPrepare ==
  /\ sy_pc = "start"
  /\ arguments.valid
  /\ LET d == IF arguments.video_settings # None
              THEN arguments.video_settings[1] ELSE DefaultDuration
     IN  /\ duration' = d
         /\ segment_specs' = to_segment_specs(
               group_frames_into_segments(arguments.generated_frames,
                                          DefaultChunkSize, d, MaxTotalRuntime))
  /\ sy_idx' = 1
  /\ sy_pc' = "loop"
  /\ UNCHANGED notSynth
  /\ UNCHANGED << arguments, provider_calls, video_segments, failed_segments, sy_result >>

\* the arguments of client.synthesize for the spec at sy_idx (lines 59-83)
SynthCall(spec) ==
  LET primary   == FirstWithId(arguments.generated_frames, spec.frame_ids[1])
      secondary == IF Len(spec.frame_ids) > 1
                   THEN FirstWithId(arguments.generated_frames, spec.frame_ids[2])
                   ELSE None
      sb        == FirstWithId(arguments.storyboard_frames, spec.frame_ids[1])
  IN  [segment_id          |-> spec.segment_id,
       primary_image_url   |-> IF primary # None THEN primary[1].image_url ELSE "",
       secondary_image_url |-> IF secondary # None THEN Some(secondary[1].image_url) ELSE None,
       prompt              |-> IF sb # None THEN sb[1].description ELSE "",
       duration_seconds    |-> duration,
       error               |-> None]

\* the provider call of one loop iteration succeeds (lines 77-93)
SynthProviderOk ==
  /\ sy_pc = "loop"
  /\ sy_idx <= Len(segment_specs)
  /\ LET spec == segment_specs[sy_idx]
     IN  /\ provider_calls' = Append(provider_calls, SynthCall(spec))
         /\ video_segments' = Append(video_segments,
               [segment_id |-> spec.segment_id,
                associated_frames |-> spec.frame_ids,
                duration_seconds |-> duration])
  /\ sy_idx' = sy_idx + 1
  /\ UNCHANGED notSynth
  /\ UNCHANGED << arguments, sy_pc, duration, segment_specs, failed_segments, sy_result >>

\* the provider call raises: record the failure and go on with the next spec
SynthProviderFail_NoBreak ==
  /\ sy_pc = "loop"
  /\ sy_idx <= Len(segment_specs)
  /\ \E msg \in ProviderErrors :
       LET spec == segment_specs[sy_idx]
       IN  /\ provider_calls' = Append(provider_calls,
                 [SynthCall(spec) EXCEPT !.error = Some(msg)])
           /\ failed_segments' = Append(failed_segments,
                 [segment_id |-> spec.segment_id,
                  error |-> "provider_error",
                  message |-> msg])
  /\ sy_idx' = sy_idx + 1
  /\ UNCHANGED notSynth
  /\ UNCHANGED << arguments, sy_pc, duration, segment_specs, video_segments, sy_result >>

\* the provider call raises: record the failure and break (lines 94-102)
SynthProviderFail ==
  /\ sy_pc = "loop"
  /\ sy_idx <= Len(segment_specs)
  /\ \E msg \in ProviderErrors :
       LET spec == segment_specs[sy_idx]
       IN  /\ provider_calls' = Append(provider_calls,
                 [SynthCall(spec) EXCEPT !.error = Some(msg)])
           /\ failed_segments' = Append(failed_segments,
                 [segment_id |-> spec.segment_id,
                  error |-> "provider_error",
                  message |-> msg])
  /\ sy_pc' = "break"
  /\ UNCHANGED notSynth
  /\ UNCHANGED << arguments, duration, segment_specs, sy_idx, video_segments, sy_result >>

\* line 104
SynthReturn ==
  /\ \/ sy_pc = "loop" /\ sy_idx > Len(segment_specs)
     \/ sy_pc = "break"
  /\ sy_pc' = "done"
  /\ sy_result' = Some([video_segments |-> video_segments,
                        failed_segments |-> failed_segments])
  /\ UNCHANGED notSynth
  /\ UNCHANGED << arguments, duration, segment_specs, sy_idx, provider_calls,
                  video_segments, failed_segments >>

NextSynth ==
  \/ SynthRejectInput
  \/ SynthPrepare
  \/ SynthProviderOk
  \/ SynthProviderFail
  \/ SynthReturn

(***************************************************************************)
(* =========================  VIDEO EDITOR SERVICE  ====================== *)
(* Editor times are fixed-point in units of 0.1 ms: 150000 = 15.0 s, so    *)
(* that round(x, 3) is a real rounding (to a multiple of 10 units).        *)
(***************************************************************************)

\* AssembleVideoRequest.limit_segments: "Max 3 segments allowed in MVP"
MaxSegmentsAllowed == 3

\* AssembleVideoRequest.limit_segments: total must be <= 15.0 s
MaxTotalDuration == 150000

\* VideoSegment.duration_seconds: Field(gt=0, le=15)
MaxSegmentDuration == 150000

\* AssemblySettings.transition literals and default
Transitions == { "hard_cut", "crossfade_0p5" }

DefaultTransition == "hard_cut"

\* duration_seconds values of the request's segments: 0, 1.0004 s, 5 s,
\* 10 s, 15 s and 15.0001 s
AvDurations == { 0, 10004, 50000, 100000, 150000, 150001 }

\* the segments of a request; the i-th segment is named SEGMENT_i
MkSegments(ds) ==
  [i \in 1..Len(ds) |-> [segment_id |-> "SEGMENT_" \o ToString(i),
                         duration_seconds |-> ds[i]]]

\* Argument objects of assemble_video.  well_formed = FALSE stands for a
\* request in which some other field breaks the schema (a video_url that is
\* not an http(s) URL, a missing segment_id, an unknown transition, ...).
EditorRequests ==
  { [video_segments |-> MkSegments(ds), well_formed |-> w, assembly_settings |-> a] :
      ds \in SeqsUpTo(AvDurations, MaxSegmentsIn),
      w \in BOOLEAN,
      a \in { None } \cup { Some(t) : t \in Transitions } }

\* exceptions of _download_segments: raise_for_status, write_bytes
DownloadErrors ==
  { [type |-> "HTTPStatusError", message |-> "404 Not Found"],
    [type |-> "OSError",         message |-> "No space left on device"] }

\* exceptions of FFmpegService.assemble_videos: ffmpeg exits non-zero, ffprobe
\* exits non-zero, the binary is missing
FfmpegErrors ==
  { [type |-> "FFmpegError",       message |-> "FFmpeg assembly failed: " \o "invalid data"],
    [type |-> "FFmpegError",       message |-> "FFprobe failed: " \o "moov atom not found"],
    [type |-> "FileNotFoundError", message |-> "ffmpeg"] }

\* exception of _sha256_file
ChecksumErrors == { [type |-> "FileNotFoundError", message |-> "output missing"] }

\* PayloadService wraps every failure in PayloadError
UploadErrors == { [type |-> "PayloadError", message |-> "Upload media failed: " \o "503"] }

AssemblyErrors == { [type |-> "PayloadError", message |-> "Create video assembly failed: " \o "503"] }

\* media.get("url") of the upload answer: a string, absent, or not a string
MediaUrls == { "https://cms/media/final.mp4", "absent", "not-a-string" }

\* duration ffprobe reports for the assembled file
ProbedDurations == { 70000 }

ErrorEnvelope(type, message) == [error |-> [type |-> type, message |-> message]]

IsErrorEnvelope(r) == r # None /\ "error" \in DOMAIN r[1]

IsFinalEdit(r) == r # None /\ "final_edit" \in DOMAIN r[1]

\* VideoSegment field constraints: Field(gt=0, le=15)
VideoSegmentValid(seg) ==
  /\ seg.duration_seconds > 0
  /\ seg.duration_seconds <= MaxSegmentDuration

\* limit_segments rejecting a total of exactly 15 s as well
limit_segments_Strict(v) ==
  /\ Len(v) # 0
  /\ ~(Len(v) > MaxSegmentsAllowed)
  /\ ~(SumSeq([i \in 1..Len(v) |-> v[i].duration_seconds]) >= MaxTotalDuration)

\* AssembleVideoRequest.limit_segments
limit_segments(v) ==
  /\ Len(v) # 0
  /\ ~(Len(v) > MaxSegmentsAllowed)
  /\ ~(SumSeq([i \in 1..Len(v) |-> v[i].duration_seconds]) > MaxTotalDuration)

\* AssembleVideoRequest(**input_data) does not raise ValidationError
AssembleVideoRequestValid(req) ==
  /\ req.well_formed
  /\ \A i \in 1..Len(req.video_segments) : VideoSegmentValid(req.video_segments[i])
  /\ limit_segments(req.video_segments)

\* round(x, 3): to the nearest millisecond (10 units), ties to even
Round3(t) ==
  LET q == t \div 10
      r == t % 10
  IN  IF r < 5 THEN q * 10
      ELSE IF r > 5 THEN (q + 1) * 10
      ELSE IF q % 2 = 0 THEN q * 10 ELSE (q + 1) * 10

\* a timeline whose cursor never advances: every event starts at the cursor
\* the loop was entered with
BuildTimeline_NoAdvance(segs, cursor, transition) ==
  [i \in 1..Len(segs) |->
     [segment_id     |-> segs[i].segment_id,
      start_time     |-> Round3(cursor),
      end_time       |-> Round3(cursor + segs[i].duration_seconds),
      transition_out |-> transition]]

\* the timeline loop of execute (lines 60-72)
RECURSIVE BuildTimeline(_, _, _)
BuildTimeline(segs, cursor, transition) ==
  IF segs = <<>> THEN <<>>
  ELSE LET seg   == Head(segs)
           start == cursor
           end   == start + seg.duration_seconds
       IN  << [segment_id     |-> seg.segment_id,
               start_time     |-> Round3(start),
               end_time       |-> Round3(end),
               transition_out |-> transition] >>
           \o BuildTimeline(Tail(segs), end, transition)

\* settings = req.assembly_settings or AssemblySettings()
SettingsTransition(req) ==
  IF req.assembly_settings # None THEN req.assembly_settings[1] ELSE DefaultTransition

SegmentFile(seg) == seg.segment_id \o ".mp4"

OutputFile == "final_draft.mp4"

EditorIdle ==
  /\ input_data = [video_segments |-> <<>>, well_formed |-> FALSE, assembly_settings |-> None]
  /\ av_pc = "idle"
  /\ temp_root_exists = FALSE
  /\ files = {}
  /\ timeline = <<>>
  /\ av_idx = 0
  /\ av_trace = <<>>
  /\ av_failure = None
  /\ av_pending = None
  /\ unlink_attempted = {}
  /\ rmdir_attempted = FALSE
  /\ av_result = None

EditorStart ==
  /\ input_data \in EditorRequests
  /\ av_pc = "start"
  /\ temp_root_exists = FALSE
  /\ files = {}
  /\ timeline = <<>>
  /\ av_idx = 0
  /\ av_trace = <<>>
  /\ av_failure = None
  /\ av_pending = None
  /\ unlink_attempted = {}
  /\ rmdir_attempted = FALSE
  /\ av_result = None

\* lines 50-52: temp_root.mkdir(parents=True, exist_ok=True) succeeds
AvMkdirOk ==
  /\ av_pc = "start"
  /\ temp_root_exists' = TRUE
  /\ av_pc' = "validate"
  /\ UNCHANGED notEditor
  /\ UNCHANGED << input_data, files, timeline, av_idx, av_trace, av_failure,
                  av_pending, unlink_attempted, rmdir_attempted, av_result >>

\* lines 50-52: mkdir raises; the statement is outside the try block, so the
\* exception leaves execute
AvMkdirFail ==
  /\ av_pc = "start"
  /\ av_pc' = "raised"
  /\ UNCHANGED notEditor
  /\ UNCHANGED << input_data, temp_root_exists, files, timeline, av_idx, av_trace,
                  av_failure, av_pending, unlink_attempted, rmdir_attempted, av_result >>

\* line 56 raises ValidationError, caught at lines 127-128
AvValidateReject ==
  /\ av_pc = "validate"
  /\ ~AssembleVideoRequestValid(input_data)
  /\ av_pending' = Some(ErrorEnvelope("ValidationError", "validation error"))
  /\ av_pc' = "cleanup"
  /\ UNCHANGED notEditor
  /\ UNCHANGED << input_data, temp_root_exists, files, timeline, av_idx, av_trace,
                  av_failure, unlink_attempted, rmdir_attempted, av_result >>

\* lines 56-72: the request validates; build the timeline
AvValidateAccept ==
  /\ av_pc = "validate"
  /\ AssembleVideoRequestValid(input_data)
  /\ timeline' = BuildTimeline(input_data.video_segments, 0, SettingsTransition(input_data))
  /\ av_idx' = 1
  /\ av_pc' = "download"
  /\ UNCHANGED notEditor
  /\ UNCHANGED << input_data, temp_root_exists, files, av_trace, av_failure,
                  av_pending, unlink_attempted, rmdir_attempted, av_result >>

\* one iteration of _download_segments succeeds; after the first segment the
\* loop is left without fetching the others
AvDownloadOk_SkipRest ==
  /\ av_pc = "download"
  /\ av_idx <= Len(input_data.video_segments)
  /\ av_trace' = Append(av_trace, [op |-> "download", seg |-> av_idx, ok |-> TRUE])
  /\ files' = files \cup { SegmentFile(input_data.video_segments[av_idx]) }
  /\ av_idx' = av_idx + 1
  /\ av_pc' = "ffmpeg"
  /\ UNCHANGED notEditor
  /\ UNCHANGED << input_data, temp_root_exists, timeline, av_failure, av_pending,
                  unlink_attempted, rmdir_attempted, av_result >>

\* one iteration of _download_segments succeeds (lines 146-152); after the
\* last one, line 75 returns the paths
AvDownloadOk ==
  /\ av_pc = "download"
  /\ av_idx <= Len(input_data.video_segments)
  /\ av_trace' = Append(av_trace, [op |-> "download", seg |-> av_idx, ok |-> TRUE])
  /\ files' = files \cup { SegmentFile(input_data.video_segments[av_idx]) }
  /\ av_idx' = av_idx + 1
  /\ av_pc' = IF av_idx = Len(input_data.video_segments) THEN "ffmpeg" ELSE "download"
  /\ UNCHANGED notEditor
  /\ UNCHANGED << input_data, temp_root_exists, timeline, av_failure, av_pending,
                  unlink_attempted, rmdir_attempted, av_result >>

\* the download of a segment fails and the failure is ignored: the loop goes
\* on with the next segment
AvDownloadFail_Swallow ==
  /\ av_pc = "download"
  /\ av_idx <= Len(input_data.video_segments)
  /\ \E e \in DownloadErrors :
       /\ av_trace' = Append(av_trace, [op |-> "download", seg |-> av_idx, ok |-> FALSE])
       /\ av_failure' = Some([stage |-> "download", message |-> e.message])
  /\ av_idx' = av_idx + 1
  /\ av_pc' = IF av_idx = Len(input_data.video_segments) THEN "ffmpeg" ELSE "download"
  /\ UNCHANGED notEditor
  /\ UNCHANGED << input_data, temp_root_exists, files, timeline, av_pending,
                  unlink_attempted, rmdir_attempted, av_result >>

\* the download of a segment raises (lines 149-151); caught at lines 129-133
AvDownloadFail ==
  /\ av_pc = "download"
  /\ av_idx <= Len(input_data.video_segments)
  /\ \E e \in DownloadErrors :
       /\ av_trace' = Append(av_trace, [op |-> "download", seg |-> av_idx, ok |-> FALSE])
       /\ av_failure' = Some([stage |-> "download", message |-> e.message])
       /\ av_pending' = Some(ErrorEnvelope(e.type, e.message))
  /\ av_pc' = "cleanup"
  /\ UNCHANGED notEditor
  /\ UNCHANGED << input_data, temp_root_exists, files, timeline, av_idx,
                  unlink_attempted, rmdir_attempted, av_result >>

\* lines 78-86: the media tool assembles the output file and probes it
AvFfmpegOk ==
  /\ av_pc = "ffmpeg"
  /\ \E dur \in ProbedDurations :
       av_trace' = Append(av_trace, [op |-> "ffmpeg", ok |-> TRUE, duration |-> dur])
  /\ files' = files \cup { OutputFile }
  /\ av_pc' = "checksum"
  /\ UNCHANGED notEditor
  /\ UNCHANGED << input_data, temp_root_exists, timeline, av_idx, av_failure,
                  av_pending, unlink_attempted, rmdir_attempted, av_result >>

\* the media tool fails; it may leave a partial output file behind
AvFfmpegFail ==
  /\ av_pc = "ffmpeg"
  /\ \E e \in FfmpegErrors, partial \in BOOLEAN :
       /\ av_trace' = Append(av_trace, [op |-> "ffmpeg", ok |-> FALSE])
       /\ av_failure' = Some([stage |-> "ffmpeg", message |-> e.message])
       /\ av_pending' = Some(ErrorEnvelope(e.type, e.message))
       /\ files' = IF partial THEN files \cup { OutputFile } ELSE files
  /\ av_pc' = "cleanup"
  /\ UNCHANGED notEditor
  /\ UNCHANGED << input_data, temp_root_exists, timeline, av_idx,
                  unlink_attempted, rmdir_attempted, av_result >>

\* line 89
AvChecksumOk ==
  /\ av_pc = "checksum"
  /\ av_trace' = Append(av_trace, [op |-> "checksum", ok |-> TRUE])
  /\ av_pc' = "upload"
  /\ UNCHANGED notEditor
  /\ UNCHANGED << input_data, temp_root_exists, files, timeline, av_idx, av_failure,
                  av_pending, unlink_attempted, rmdir_attempted, av_result >>

AvChecksumFail ==
  /\ av_pc = "checksum"
  /\ \E e \in ChecksumErrors :
       /\ av_trace' = Append(av_trace, [op |-> "checksum", ok |-> FALSE])
       /\ av_failure' = Some([stage |-> "checksum", message |-> e.message])
       /\ av_pending' = Some(ErrorEnvelope(e.type, e.message))
  /\ av_pc' = "cleanup"
  /\ UNCHANGED notEditor
  /\ UNCHANGED << input_data, temp_root_exists, files, timeline, av_idx,
                  unlink_attempted, rmdir_attempted, av_result >>

\* lines 95-101
AvUploadOk ==
  /\ av_pc = "upload"
  /\ \E url \in MediaUrls :
       av_trace' = Append(av_trace, [op |-> "upload", ok |-> TRUE, url |-> url])
  /\ av_pc' = "record"
  /\ UNCHANGED notEditor
  /\ UNCHANGED << input_data, temp_root_exists, files, timeline, av_idx, av_failure,
                  av_pending, unlink_attempted, rmdir_attempted, av_result >>

AvUploadFail ==
  /\ av_pc = "upload"
  /\ \E e \in UploadErrors :
       /\ av_trace' = Append(av_trace, [op |-> "upload", ok |-> FALSE])
       /\ av_failure' = Some([stage |-> "upload", message |-> e.message])
       /\ av_pending' = Some(ErrorEnvelope(e.type, e.message))
  /\ av_pc' = "cleanup"
  /\ UNCHANGED notEditor
  /\ UNCHANGED << input_data, temp_root_exists, files, timeline, av_idx,
                  unlink_attempted, rmdir_attempted, av_result >>

\* lines 104-115
AvCreateAssemblyOk ==
  /\ av_pc = "record"
  /\ av_trace' = Append(av_trace, [op |-> "create_assembly", ok |-> TRUE])
  /\ av_pc' = "respond"
  /\ UNCHANGED notEditor
  /\ UNCHANGED << input_data, temp_root_exists, files, timeline, av_idx, av_failure,
                  av_pending, unlink_attempted, rmdir_attempted, av_result >>

AvCreateAssemblyFail ==
  /\ av_pc = "record"
  /\ \E e \in AssemblyErrors :
       /\ av_trace' = Append(av_trace, [op |-> "create_assembly", ok |-> FALSE])
       /\ av_failure' = Some([stage |-> "create_assembly", message |-> e.message])
       /\ av_pending' = Some(ErrorEnvelope(e.type, e.message))
  /\ av_pc' = "cleanup"
  /\ UNCHANGED notEditor
  /\ UNCHANGED << input_data, temp_root_exists, files, timeline, av_idx,
                  unlink_attempted, rmdir_attempted, av_result >>

\* the step of av_trace with the given op (there is at most one)
TraceStep(op) == CHOOSE ev \in { av_trace[i] : i \in 1..Len(av_trace) } : ev.op = op

\* lines 118-125: FinalEdit(...) raises ValidationError when video_url is not
\* a string; otherwise the response is returned
AvRespond ==
  /\ av_pc = "respond"
  /\ LET url == TraceStep("upload").url
     IN  IF url = "not-a-string"
         THEN /\ av_pending' = Some(ErrorEnvelope("ValidationError", "video_url: str type expected"))
              /\ av_trace' = av_trace
         ELSE /\ av_pending' = Some([final_edit |->
                    [video_url        |-> url,
                     duration_seconds |-> TraceStep("ffmpeg").duration,
                     edit_timeline    |-> timeline,
                     checksum         |-> "sha256:" \o "digest"]])
              /\ av_trace' = Append(av_trace, [op |-> "respond", ok |-> TRUE])
  /\ av_pc' = "cleanup"
  /\ UNCHANGED notEditor
  /\ UNCHANGED << input_data, temp_root_exists, files, timeline, av_idx, av_failure,
                  unlink_attempted, rmdir_attempted, av_result >>

\* finally block, lines 137-138: one p.unlink(missing_ok=True) succeeds
AvCleanupUnlinkOk ==
  /\ av_pc = "cleanup"
  /\ \E p \in files \ unlink_attempted :
       /\ files' = files \ { p }
       /\ unlink_attempted' = unlink_attempted \cup { p }
  /\ UNCHANGED notEditor
  /\ UNCHANGED << input_data, av_pc, temp_root_exists, timeline, av_idx, av_trace,
                  av_failure, av_pending, rmdir_attempted, av_result >>

\* finally block: p.unlink raises; lines 140-141 swallow it and leave the
\* loop, so the remaining files and the directory are left alone
AvCleanupUnlinkFail ==
  /\ av_pc = "cleanup"
  /\ \E p \in files \ unlink_attempted :
       unlink_attempted' = unlink_attempted \cup { p }
  /\ av_pc' = "return"
  /\ UNCHANGED notEditor
  /\ UNCHANGED << input_data, temp_root_exists, files, timeline, av_idx, av_trace,
                  av_failure, av_pending, rmdir_attempted, av_result >>

\* finally block, line 139: temp_root.rmdir() after the loop ran through
AvCleanupRmdir ==
  /\ av_pc = "cleanup"
  /\ files \ unlink_attempted = {}
  /\ rmdir_attempted' = TRUE
  /\ \E ok \in BOOLEAN : temp_root_exists' = ~ok
  /\ av_pc' = "return"
  /\ UNCHANGED notEditor
  /\ UNCHANGED << input_data, files, timeline, av_idx, av_trace, av_failure,
                  av_pending, unlink_attempted, av_result >>

\* execute returns the value chosen in the try/except
AvReturn ==
  /\ av_pc = "return"
  /\ av_result' = av_pending
  /\ av_pc' = "returned"
  /\ UNCHANGED notEditor
  /\ UNCHANGED << input_data, temp_root_exists, files, timeline, av_idx, av_trace,
                  av_failure, av_pending, unlink_attempted, rmdir_attempted >>

NextAssemble ==
  \/ AvMkdirOk
  \/ AvMkdirFail
  \/ AvValidateReject
  \/ AvValidateAccept
  \/ AvDownloadOk
  \/ AvDownloadFail
  \/ AvFfmpegOk
  \/ AvFfmpegFail
  \/ AvChecksumOk
  \/ AvChecksumFail
  \/ AvUploadOk
  \/ AvUploadFail
  \/ AvCreateAssemblyOk
  \/ AvCreateAssemblyFail
  \/ AvRespond
  \/ AvCleanupUnlinkOk
  \/ AvCleanupUnlinkFail
  \/ AvCleanupRmdir
  \/ AvReturn

\* the request passed validation (lines 56-72 ran through)
AvAccepted == av_idx >= 1

\* the segment conditions of the request: 1 to 3 segments, every duration d
\* with 0 < d <= 15 s, durations summing to at most 15 s
SegmentConditions(req) ==
  LET v == req.video_segments
  IN  /\ Len(v) >= 1
      /\ Len(v) <= 3
      /\ \A i \in 1..Len(v) : v[i].duration_seconds > 0 /\ v[i].duration_seconds <= 150000
      /\ SumSeq([i \in 1..Len(v) |-> v[i].duration_seconds]) <= 150000

\* the ops of the steps performed so far
TraceOps == { av_trace[i].op : i \in 1..Len(av_trace) }

(***************************************************************************)
(* mcp-story-architect-service: DraftStoryArcTool.execute                  *)
(***************************************************************************)

\* shapes a value of the argument object can have
ValueShapes == {"absent", "null", "text", "mapping"}

\* target_runtime_seconds values of a request, around both limits
RuntimeValues == { 4, 5, 300, 301 }

\* CreativeGuidelines.validate_runtime rejecting the lower limit itself
validate_runtime_Strict(v) == v = None \/ ~(v[1] <= 5 \/ v[1] > 300)

\* CreativeGuidelines.validate_runtime does not raise
validate_runtime(v) == v = None \/ ~(v[1] < 5 \/ v[1] > 300)

\* argument objects of draft_story_arc.  concept_ok: concept_brief passes
\* ConceptBrief; creative_guidelines / trace_headers: shape of the value
\* (trace_headers is a key of a creative_guidelines mapping);
\* target_runtime_seconds: the integer given under that key of a
\* creative_guidelines mapping; project_id given or not
DraftRequests ==
  { r \in [concept_ok : BOOLEAN,
           creative_guidelines : ValueShapes,
           trace_headers : ValueShapes,
           target_runtime_seconds : { None } \cup { Some(v) : v \in RuntimeValues },
           project_id : {"absent", "p1"}] :
      IF r.creative_guidelines = "mapping"
      THEN r.target_runtime_seconds # None
      ELSE r.trace_headers = "absent" /\ r.target_runtime_seconds = None }

\* outcomes of PayloadCMSService.get_prompt_template
TemplateOutcomes == {"template", "none", "error"}

\* outcomes of the roster coroutine: get_character_roster(project_id) when a
\* project id is given, the constant [] otherwise
RosterOutcomes(req) ==
  IF req.project_id # "absent" THEN {"roster", "empty", "error"} ELSE {"empty"}

\* outcomes of _get_or_generate_seed, which catches every exception
SeedOutcomes == {"seed", "none"}

GatherTasks == {"prompt_template", "character_roster", "seed"}

\* ways chat.completions.create and the handling of its response can fail
LlmFailures == {"timeout", "api_error", "other_error", "no_choices",
                "empty_content", "invalid_json"}

\* config.py 50-51, 99-103: each word limit is accepted in 10..500 on its
\* own; nothing relates the soft limit to the hard one
WordLimits == {10, 20}

DraftConfigs == [word_limit_soft : WordLimits, word_limit_hard : WordLimits]

\* words of the three sections of an arc, all together
WordTotals == {5, 15, 25}

\* ContinuityFlagCode
ContinuityFlagCodes ==
  {"CHARACTER_NOT_FOUND", "LOCATION_UNSPECIFIED", "CONFLICT_DRIFT",
   "RUNTIME_FEASIBILITY_RISK", "TONE_MISMATCH", "PACING_ISSUE",
   "WORD_LIMIT_EXCEEDED", "GENRE_INCONSISTENCY", "EMOTIONAL_BEAT_MISSING"}

\* codes of the flags an LLM answer embeds: a declared one, an unknown one
EmbeddedFlagLists == SeqsUpTo({"PACING_ISSUE", "MADE_UP_CODE"}, 2)

\* ContinuityFlag(**flag_data)
ContinuityFlagValid(code) == code \in ContinuityFlagCodes

\* lines 543-550: the embedded flags are parsed one by one, valid ones kept;
\* severity defaults to warning
ExtractFlags(raw) ==
  LET kept == SelectSeq(raw.continuity_flags, ContinuityFlagValid)
  IN  [i \in 1..Len(kept) |-> [code |-> kept[i], severity |-> "warning"]]

\* lines 634, 646: the codes _create_word_limit_flags asks ContinuityFlagCode for
WordLimitCodes == {"WORD_LIMIT_HARD", "WORD_LIMIT_SOFT"}

\* number of collected word-limit flags of one severity
WordLimitFlagCount(flags, severity) ==
  Cardinality({ i \in 1..Len(flags) :
                  flags[i].code \in WordLimitCodes /\ flags[i].severity = severity })

\* JSON values the LLM content can parse to
RawArcs == [object : BOOLEAN, setup_keys : BOOLEAN, beginning_keys : BOOLEAN,
            beats_ok : BOOLEAN, total_words : WordTotals,
            continuity_flags : EmbeddedFlagLists]

\* the fields StoryArc declares
StoryArcFields == {"setup", "escalation", "resolution", "emotional_beats",
                   "continuity_flags", "seed"}

\* the attributes _analyze_word_counts reads from the StoryArc
WordCountAttributes == {"beginning", "middle", "end"}

\* the stages of execute, in the order of its statements
StageOrder == << "validate", "gather", "render", "generate", "validate_arc",
                 "persist", "respond" >>

\* _extract_trace_context: .get is called on a truthy creative_guidelines and
\* on whatever it holds under trace_headers
ExtractTraceRaises(req) ==
  \/ req.creative_guidelines = "text"
  \/ /\ req.creative_guidelines = "mapping"
     /\ req.trace_headers \in {"null", "text"}

TraceId(req) ==
  IF req.creative_guidelines = "mapping" /\ req.trace_headers = "mapping"
  THEN Some("T1") ELSE None

\* DraftStoryArcRequest(**input_data)
DraftStoryArcRequestValid(req) ==
  /\ req.concept_ok
  /\ req.creative_guidelines \in {"absent", "null", "mapping"}
  /\ req.creative_guidelines = "mapping" =>
       /\ validate_runtime(req.target_runtime_seconds)
       /\ req.trace_headers \in {"absent", "null", "mapping"}

\* StoryArc(**raw_story_data); continuity_flags is List[ContinuityFlag], so
\* every embedded flag is validated with the arc
StoryArcValid(raw) ==
  /\ raw.setup_keys
  /\ raw.beats_ok
  /\ \A i \in 1..Len(raw.continuity_flags) :
       ContinuityFlagValid(raw.continuity_flags[i])

\* story_arc.beginning / .middle / .end on a StoryArc instance
AnalyzeWordCountsRaises == ~(WordCountAttributes \subseteq StoryArcFields)

\* the exception type that leaves _generate_with_llm (lines 497-522): the
\* LLMError and LLMValidationError raised inside the try are caught again by
\* its own "except Exception" and leave as LLMError
LlmErrorType(f) == IF f = "timeout" THEN "LLMTimeoutError" ELSE "LLMError"

LlmErrorMessage(f) ==
  CASE f = "timeout" -> "LLM request timeout"
    [] f = "api_error" -> "LLM API error"
    [] f = "no_choices" -> "LLM generation failed: No response choices received from LLM"
    [] f = "empty_content" -> "LLM generation failed: Empty response content from LLM"
    [] f = "invalid_json" -> "LLM generation failed: Invalid JSON response"
    [] OTHER -> "LLM generation failed"

\* the except branch of execute, lines 262-283
DraftErrorEnvelope(type, message) ==
  [error |-> [type |-> type, message |-> message,
              trace_id |-> IF trace_context = None THEN None
                           ELSE trace_context[1].trace_id]]

IsDraftError(r) == r # None /\ "error" \in DOMAIN r[1]

IsDraftSuccess(r) == r # None /\ "story_arc" \in DOMAIN r[1]

DraftIdle ==
  /\ ds_input = [concept_ok |-> FALSE, creative_guidelines |-> "absent",
                 trace_headers |-> "absent", target_runtime_seconds |-> None,
                 project_id |-> "absent"]
  /\ py_has_coroutine = FALSE
  /\ ds_config = [word_limit_soft |-> 10, word_limit_hard |-> 20]
  /\ continuity_flags = << >>
  /\ ds_pc = "idle"
  /\ trace_context = None
  /\ fetch = [t \in GatherTasks |-> "idle"]
  /\ prompt_template = None
  /\ character_roster = "empty"
  /\ seed = None
  /\ rendered_prompt = None
  /\ llm_calls = 0
  /\ raw_story_arc = None
  /\ ds_trace = <<>>
  /\ ds_failure = None
  /\ ds_result = None

\* execute is called; asyncio.coroutine exists up to Python 3.10 and is gone
\* from 3.11 on, and the service pins no interpreter version
DraftStart ==
  /\ ds_input \in DraftRequests
  /\ py_has_coroutine \in BOOLEAN
  /\ ds_config \in DraftConfigs
  /\ continuity_flags = << >>
  /\ ds_pc = "start"
  /\ trace_context = None
  /\ fetch = [t \in GatherTasks |-> "idle"]
  /\ prompt_template = None
  /\ character_roster = "empty"
  /\ seed = None
  /\ rendered_prompt = None
  /\ llm_calls = 0
  /\ raw_story_arc = None
  /\ ds_trace = <<>>
  /\ ds_failure = None
  /\ ds_result = None

\* the except branch: record the exception, return the envelope
DsFailBy(stage, cause, type, message) ==
  /\ ds_failure' = Some([stage |-> stage, cause |-> cause, type |-> type,
                         message |-> message])
  /\ ds_result' = Some(DraftErrorEnvelope(type, message))
  /\ ds_pc' = "returned"

DsFail(stage, type, message) == DsFailBy(stage, stage, type, message)

\* line 191, before the try
DsExtractTraceOk ==
  /\ ds_pc = "start"
  /\ ~ExtractTraceRaises(ds_input)
  /\ trace_context' = Some([trace_id |-> TraceId(ds_input)])
  /\ ds_pc' = "validate"
  /\ UNCHANGED notDraft
  /\ UNCHANGED continuity_flags
  /\ UNCHANGED << ds_input, py_has_coroutine, ds_config, fetch, prompt_template,
                  character_roster, seed, rendered_prompt, llm_calls,
                  raw_story_arc, ds_trace, ds_failure, ds_result >>

\* line 191: the AttributeError of .get leaves execute, nothing catches it
DsExtractTraceRaises ==
  /\ ds_pc = "start"
  /\ ExtractTraceRaises(ds_input)
  /\ ds_failure' = Some([stage |-> "trace", cause |-> "trace",
                         type |-> "AttributeError",
                         message |-> "object has no attribute 'get'"])
  /\ ds_pc' = "raised"
  /\ UNCHANGED notDraft
  /\ UNCHANGED continuity_flags
  /\ UNCHANGED << ds_input, py_has_coroutine, ds_config, trace_context, fetch,
                  prompt_template, character_roster, seed, rendered_prompt,
                  llm_calls, raw_story_arc, ds_trace, ds_result >>

\* line 203: _validate_input raises StoryArcGenerationError
DsValidateReject ==
  /\ ds_pc = "validate"
  /\ ~DraftStoryArcRequestValid(ds_input)
  /\ ds_trace' = Append(ds_trace, "validate")
  /\ DsFail("validate", "StoryArcGenerationError", "Input validation failed")
  /\ UNCHANGED notDraft
  /\ UNCHANGED continuity_flags
  /\ UNCHANGED << ds_input, py_has_coroutine, ds_config, trace_context, fetch,
                  prompt_template, character_roster, seed, rendered_prompt,
                  llm_calls, raw_story_arc >>

\* line 203: the request validates
DsValidateAccept ==
  /\ ds_pc = "validate"
  /\ DraftStoryArcRequestValid(ds_input)
  /\ ds_trace' = Append(ds_trace, "validate")
  /\ ds_pc' = "gather"
  /\ UNCHANGED notDraft
  /\ UNCHANGED continuity_flags
  /\ UNCHANGED << ds_input, py_has_coroutine, ds_config, trace_context, fetch,
                  prompt_template, character_roster, seed, rendered_prompt,
                  llm_calls, raw_story_arc, ds_failure, ds_result >>

\* lines 332-337: building the argument list of asyncio.gather evaluates
\* asyncio.coroutine when no project id is given; where the attribute is gone
\* the AttributeError leaves _gather_resources before any fetch is awaited
DsGatherArgsRaise ==
  /\ ds_pc = "gather"
  /\ ds_input.project_id = "absent"
  /\ ~py_has_coroutine
  /\ ds_trace' = Append(ds_trace, "gather")
  /\ DsFail("gather", "AttributeError",
            "module 'asyncio' has no attribute 'coroutine'")
  /\ UNCHANGED notDraft
  /\ UNCHANGED continuity_flags
  /\ UNCHANGED << ds_input, py_has_coroutine, ds_config, trace_context, fetch,
                  prompt_template, character_roster, seed, rendered_prompt,
                  llm_calls, raw_story_arc >>

\* lines 332-337: the three coroutines are scheduled
DsGatherStart ==
  /\ ds_pc = "gather"
  /\ ds_input.project_id # "absent" \/ py_has_coroutine
  /\ ds_trace' = Append(ds_trace, "gather")
  /\ fetch' = [t \in GatherTasks |-> "pending"]
  /\ ds_pc' = "gathering"
  /\ UNCHANGED notDraft
  /\ UNCHANGED continuity_flags
  /\ UNCHANGED << ds_input, py_has_coroutine, ds_config, trace_context, prompt_template,
                  character_roster, seed, rendered_prompt, llm_calls,
                  raw_story_arc, ds_failure, ds_result >>

\* a scheduled coroutine finishes with outcome o (return_exceptions=True: an
\* exception is an outcome like any other)
FetchCompletes(task, o) ==
  /\ ds_pc = "gathering"
  /\ fetch[task] = "pending"
  /\ fetch' = [fetch EXCEPT ![task] = o]
  /\ UNCHANGED notDraft
  /\ UNCHANGED continuity_flags
  /\ UNCHANGED << ds_input, py_has_coroutine, ds_config, ds_pc, trace_context,
                  prompt_template, character_roster, seed, rendered_prompt,
                  llm_calls, raw_story_arc, ds_trace, ds_failure, ds_result >>

\* line 333: get_prompt_template finishes
DsFetchTemplate ==
  /\ fetch["prompt_template"] = "pending"
  /\ \E o \in TemplateOutcomes : FetchCompletes("prompt_template", o)

\* line 334: the roster coroutine finishes
DsFetchRoster ==
  /\ fetch["character_roster"] = "pending"
  /\ \E o \in RosterOutcomes(ds_input) : FetchCompletes("character_roster", o)

\* line 335: _get_or_generate_seed finishes
DsFetchSeed ==
  /\ fetch["seed"] = "pending"
  /\ \E o \in SeedOutcomes : FetchCompletes("seed", o)

GatherDone == \A t \in GatherTasks : fetch[t] \notin {"idle", "pending"}

\* lines 339-341
GatherResults ==
  /\ prompt_template' = IF fetch["prompt_template"] = "template"
                        THEN Some("template") ELSE None
  /\ character_roster' = IF fetch["character_roster"] = "roster"
                         THEN "roster" ELSE "empty"
  /\ seed' = IF fetch["seed"] = "seed" THEN Some("seed") ELSE None

\* lines 339-354: gather returned, no template among the results
DsGatherNoTemplate ==
  /\ ds_pc = "gathering"
  /\ GatherDone
  /\ fetch["prompt_template"] # "template"
  /\ GatherResults
  /\ DsFail("gather", "StoryArcGenerationError",
            "No suitable prompt template found")
  /\ UNCHANGED notDraft
  /\ UNCHANGED continuity_flags
  /\ UNCHANGED << ds_input, py_has_coroutine, ds_config, trace_context, fetch,
                  rendered_prompt, llm_calls, raw_story_arc, ds_trace >>

\* lines 339-363: gather returned with a template
DsGatherJoin ==
  /\ ds_pc = "gathering"
  /\ GatherDone
  /\ fetch["prompt_template"] = "template"
  /\ GatherResults
  /\ ds_pc' = "render"
  /\ UNCHANGED notDraft
  /\ UNCHANGED continuity_flags
  /\ UNCHANGED << ds_input, py_has_coroutine, ds_config, trace_context, fetch,
                  rendered_prompt, llm_calls, raw_story_arc, ds_trace,
                  ds_failure, ds_result >>

\* lines 211-213, 387-416
DsRenderOk ==
  /\ ds_pc = "render"
  /\ ds_trace' = Append(ds_trace, "render")
  /\ rendered_prompt' = Some([template |-> prompt_template,
                              roster |-> character_roster, seed |-> seed])
  /\ ds_pc' = "llm"
  /\ UNCHANGED notDraft
  /\ UNCHANGED continuity_flags
  /\ UNCHANGED << ds_input, py_has_coroutine, ds_config, trace_context, fetch,
                  prompt_template, character_roster, seed, llm_calls,
                  raw_story_arc, ds_failure, ds_result >>

\* lines 418-420: the template does not render
DsRenderFail ==
  /\ ds_pc = "render"
  /\ ds_trace' = Append(ds_trace, "render")
  /\ DsFail("render", "StoryArcGenerationError", "Prompt rendering failed")
  /\ UNCHANGED notDraft
  /\ UNCHANGED continuity_flags
  /\ UNCHANGED << ds_input, py_has_coroutine, ds_config, trace_context, fetch,
                  prompt_template, character_roster, seed, rendered_prompt,
                  llm_calls, raw_story_arc >>

\* lines 216-218, 458-511: the call returns content that parses as JSON
DsLlmOk ==
  /\ ds_pc = "llm"
  /\ \E raw \in RawArcs : raw_story_arc' = Some(raw)
  /\ llm_calls' = llm_calls + 1
  /\ ds_trace' = Append(ds_trace, "generate")
  /\ ds_pc' = "arc"
  /\ UNCHANGED notDraft
  /\ UNCHANGED continuity_flags
  /\ UNCHANGED << ds_input, py_has_coroutine, ds_config, trace_context, fetch,
                  prompt_template, character_roster, seed, rendered_prompt,
                  ds_failure, ds_result >>

\* a failed call that is tried once more, as max_retries would suggest
DsLlmFail_Retry ==
  /\ ds_pc = "llm"
  /\ llm_calls < 2
  /\ llm_calls' = llm_calls + 1
  /\ ds_trace' = IF llm_calls = 0 THEN Append(ds_trace, "generate") ELSE ds_trace
  /\ UNCHANGED notDraft
  /\ UNCHANGED continuity_flags
  /\ UNCHANGED << ds_input, py_has_coroutine, ds_config, ds_pc, trace_context, fetch,
                  prompt_template, character_roster, seed, rendered_prompt,
                  raw_story_arc, ds_failure, ds_result >>

\* lines 497-522: the call or the handling of its response fails
DsLlmFail ==
  /\ ds_pc = "llm"
  /\ llm_calls' = llm_calls + 1
  /\ ds_trace' = Append(ds_trace, "generate")
  /\ \E f \in LlmFailures :
       /\ DsFailBy("generate", f, LlmErrorType(f), LlmErrorMessage(f))
       /\ raw_story_arc' = IF f = "invalid_json" THEN Some("not json") ELSE None
  /\ UNCHANGED notDraft
  /\ UNCHANGED continuity_flags
  /\ UNCHANGED << ds_input, py_has_coroutine, ds_config, trace_context, fetch,
                  prompt_template, character_roster, seed, rendered_prompt >>

\* lines 530-541: StoryArc(**raw_story_data) fails; a JSON value that is not
\* an object makes the ** raise TypeError, which no clause there catches
DsArcReject ==
  /\ ds_pc = "arc"
  /\ ~(raw_story_arc[1].object /\ StoryArcValid(raw_story_arc[1]))
  /\ ds_trace' = Append(ds_trace, "validate_arc")
  /\ IF raw_story_arc[1].object
     THEN DsFail("validate_arc", "StoryArcGenerationError",
                 "Story arc validation failed")
     ELSE DsFail("validate_arc", "TypeError",
                 "argument after ** must be a mapping")
  /\ UNCHANGED notDraft
  /\ UNCHANGED continuity_flags
  /\ UNCHANGED << ds_input, py_has_coroutine, ds_config, trace_context, fetch,
                  prompt_template, character_roster, seed, rendered_prompt,
                  llm_calls, raw_story_arc >>

\* lines 531, 543-553, 587: the arc validates, its embedded flags are
\* collected, and _analyze_word_counts reads attributes StoryArc does not have
DsArcAnalyzeRaises ==
  /\ ds_pc = "arc"
  /\ raw_story_arc[1].object
  /\ StoryArcValid(raw_story_arc[1])
  /\ AnalyzeWordCountsRaises
  /\ continuity_flags' = ExtractFlags(raw_story_arc[1])
  /\ ds_trace' = Append(ds_trace, "validate_arc")
  /\ DsFail("validate_arc", "AttributeError",
            "'StoryArc' object has no attribute 'beginning'")
  /\ UNCHANGED notDraft
  /\ UNCHANGED << ds_input, py_has_coroutine, ds_config, trace_context, fetch,
                  prompt_template, character_roster, seed, rendered_prompt,
                  llm_calls, raw_story_arc >>

NextDraft ==
  \/ DsExtractTraceOk
  \/ DsExtractTraceRaises
  \/ DsValidateReject
  \/ DsValidateAccept
  \/ DsGatherArgsRaise
  \/ DsGatherStart
  \/ DsFetchTemplate
  \/ DsFetchRoster
  \/ DsFetchSeed
  \/ DsGatherNoTemplate
  \/ DsGatherJoin
  \/ DsRenderOk
  \/ DsRenderFail
  \/ DsLlmOk
  \/ DsLlmFail
  \/ DsArcReject
  \/ DsArcAnalyzeRaises

\* the stages entered so far
DraftStages == { ds_trace[i] : i \in 1..Len(ds_trace) }

\* _gather_resources has been left
GatherOver == "gather" \in DraftStages /\ ds_pc # "gathering"

(***************************************************************************)
(* mcp-story-architect-service: PayloadCMSService.get_or_create_seed,      *)
(* called by concurrent requests for one (project_id, concept_brief_hash,  *)
(* service_name) triple                                                    *)
(***************************************************************************)
Callers == 1..MaxCallers

SeedProject == "p1"

SeedConceptHash == "h1"

\* line 227: sha256(project_id:concept_brief_hash:story-architect)[:16]
SeedValueFor(project_id, concept_brief_hash) ==
  << "sha16", project_id, concept_brief_hash, "story-architect" >>

\* lines 229-235: the record get_or_create_seed posts
NewSeed(id) ==
  [id |-> id, project_id |-> SeedProject, service_name |-> "story-architect",
   seed_value |-> SeedValueFor(SeedProject, SeedConceptHash),
   concept_brief_hash |-> SeedConceptHash, usage_count |-> 1]

SeedIdle ==
  /\ seed_docs = <<>>
  /\ sc_pc = [c \in Callers |-> "idle"]
  /\ sc_found = [c \in Callers |-> None]
  /\ sc_calls = [c \in Callers |-> 0]
  /\ sc_ret = [c \in Callers |-> None]

\* the CMS holds no seed for the triple yet, or the one an earlier call made
SeedStart ==
  /\ seed_docs \in { <<>>, << NewSeed(1) >> }
  /\ sc_pc = [c \in Callers |-> "idle"]
  /\ sc_found = [c \in Callers |-> None]
  /\ sc_calls = [c \in Callers |-> 0]
  /\ sc_ret = [c \in Callers |-> None]

\* a request calls get_or_create_seed (line 197)
ScCall(c) ==
  /\ sc_pc[c] = "idle"
  /\ sc_calls[c] < MaxSeedCalls
  /\ sc_calls' = [sc_calls EXCEPT ![c] = @ + 1]
  /\ sc_pc' = [sc_pc EXCEPT ![c] = "lookup"]
  /\ sc_found' = [sc_found EXCEPT ![c] = None]
  /\ UNCHANGED notSeed
  /\ UNCHANGED << seed_docs, sc_ret >>

\* lines 208-219: the GET answers with the documents of the triple, limit 1
ScLookupOk(c) ==
  /\ sc_pc[c] = "lookup"
  /\ IF seed_docs # <<>>
     THEN /\ sc_found' = [sc_found EXCEPT ![c] = Some(seed_docs[1])]
          /\ sc_pc' = [sc_pc EXCEPT ![c] = "update"]
     ELSE /\ sc_found' = sc_found
          /\ sc_pc' = [sc_pc EXCEPT ![c] = "create"]
  /\ UNCHANGED notSeed
  /\ UNCHANGED << seed_docs, sc_calls, sc_ret >>

\* lines 214, 239-241: the GET fails, PayloadCMSConnectionError is raised
ScLookupFail(c) ==
  /\ sc_pc[c] = "lookup"
  /\ sc_ret' = [sc_ret EXCEPT ![c] = Some([error |-> "PayloadCMSConnectionError"])]
  /\ sc_pc' = [sc_pc EXCEPT ![c] = "idle"]
  /\ UNCHANGED notSeed
  /\ UNCHANGED << seed_docs, sc_found, sc_calls >>

\* lines 221-223, 262-276: the PATCH increments usage_count in the CMS; the
\* document read by the lookup is what is returned
ScUpdateUsageOk(c) ==
  /\ sc_pc[c] = "update"
  /\ seed_docs' = [i \in 1..Len(seed_docs) |->
                     IF seed_docs[i].id = sc_found[c][1].id
                     THEN [seed_docs[i] EXCEPT !.usage_count = @ + 1]
                     ELSE seed_docs[i]]
  /\ sc_ret' = [sc_ret EXCEPT ![c] = Some([seed_value |-> sc_found[c][1].seed_value,
                                           id |-> sc_found[c][1].id])]
  /\ sc_pc' = [sc_pc EXCEPT ![c] = "idle"]
  /\ UNCHANGED notSeed
  /\ UNCHANGED << sc_found, sc_calls >>

\* lines 278-279: the PATCH fails, a warning is logged, the seed is returned
ScUpdateUsageFail(c) ==
  /\ sc_pc[c] = "update"
  /\ sc_ret' = [sc_ret EXCEPT ![c] = Some([seed_value |-> sc_found[c][1].seed_value,
                                           id |-> sc_found[c][1].id])]
  /\ sc_pc' = [sc_pc EXCEPT ![c] = "idle"]
  /\ UNCHANGED notSeed
  /\ UNCHANGED << seed_docs, sc_found, sc_calls >>

\* lines 226-237, 243-257: the POST stores a new record, which is returned
ScCreateOk(c) ==
  /\ sc_pc[c] = "create"
  /\ seed_docs' = Append(seed_docs, NewSeed(Len(seed_docs) + 1))
  /\ sc_ret' = [sc_ret EXCEPT ![c] = Some([seed_value |-> NewSeed(0).seed_value,
                                           id |-> Len(seed_docs) + 1])]
  /\ sc_pc' = [sc_pc EXCEPT ![c] = "idle"]
  /\ UNCHANGED notSeed
  /\ UNCHANGED << sc_found, sc_calls >>

\* lines 254, 259-260: the POST fails
ScCreateFail(c) ==
  /\ sc_pc[c] = "create"
  /\ sc_ret' = [sc_ret EXCEPT ![c] = Some([error |-> "PayloadCMSConnectionError"])]
  /\ sc_pc' = [sc_pc EXCEPT ![c] = "idle"]
  /\ UNCHANGED notSeed
  /\ UNCHANGED << seed_docs, sc_found, sc_calls >>

NextSeed ==
  \/ \E c \in Callers : ScCall(c)
  \/ \E c \in Callers : ScLookupOk(c)
  \/ \E c \in Callers : ScLookupFail(c)
  \/ \E c \in Callers : ScUpdateUsageOk(c)
  \/ \E c \in Callers : ScUpdateUsageFail(c)
  \/ \E c \in Callers : ScCreateOk(c)
  \/ \E c \in Callers : ScCreateFail(c)

(***************************************************************************)
(* mcp-story-architect-service: StoryArchitectMCPServer (main.py)          *)
(***************************************************************************)

\* configuration objects.  StoryArchitectConfig declares none of
\* default_llm_provider, payload_cms_url and auto_setup_payload_collections,
\* which start() reads: with it the reads raise AttributeError
\* (provides_undeclared = FALSE).  A configuration object that provides
\* them, as main.py expects of it, is covered as well
ServerConfigs ==
  { c \in [provides_undeclared : BOOLEAN,
           auto_setup_payload_collections : BOOLEAN,
           platform : {"posix", "win32"}] :
      ~c.provides_undeclared => ~c.auto_setup_payload_collections }

\* what the CMS does to GET /health
CmsHealthStates == {"ok", "non200", "unreachable"}

HealthChecks == {"payload_cms", "llm", "configuration"}

\* PayloadCMSService.health_check: True on status 200, False otherwise; the
\* exception of an unreachable CMS is caught inside and gives False too
PayloadHealthCheck(cms) == cms = "ok"

ServerIdle ==
  /\ srv_config = [provides_undeclared |-> FALSE,
                   auto_setup_payload_collections |-> FALSE, platform |-> "posix"]
  /\ srv_pc = "idle"
  /\ handlers_installed = FALSE
  /\ is_running = FALSE
  /\ shutdown_event = FALSE
  /\ signals_handled = 0
  /\ srv_error = None
  /\ hc_pc = "idle"
  /\ hc_cms = "ok"
  /\ health_details = << >>
  /\ hc_result = None

\* __init__ (lines 28-39) has run and start() is called
ServerStart ==
  /\ srv_config \in ServerConfigs
  /\ srv_pc = "begin"
  /\ handlers_installed = FALSE
  /\ is_running = FALSE
  /\ shutdown_event = FALSE
  /\ signals_handled = 0
  /\ srv_error = None
  /\ hc_pc = "idle"
  /\ hc_cms = "ok"
  /\ health_details = << >>
  /\ hc_result = None

\* lines 164-169, 196-198: the log call reads attributes the configuration
\* does not have
SrvLogRaises ==
  /\ srv_pc = "begin"
  /\ ~srv_config.provides_undeclared
  /\ srv_error' = Some("AttributeError")
  /\ srv_pc' = "cleanup"
  /\ UNCHANGED notServer
  /\ UNCHANGED << srv_config, handlers_installed, is_running, shutdown_event,
                  signals_handled, hc_pc, hc_cms, health_details, hc_result >>

\* lines 171-188: install the handlers, register the tools; without
\* auto-provisioning no await separates this from _is_running = True
SrvInstallHandlers ==
  /\ srv_pc = "begin"
  /\ srv_config.provides_undeclared
  /\ handlers_installed' = (srv_config.platform # "win32")
  /\ IF srv_config.auto_setup_payload_collections
     THEN /\ srv_pc' = "provision"
          /\ is_running' = is_running
     ELSE /\ srv_pc' = "server_start"
          /\ is_running' = TRUE
  /\ UNCHANGED notServer
  /\ UNCHANGED << srv_config, shutdown_event, signals_handled, srv_error,
                  hc_pc, hc_cms, health_details, hc_result >>

\* lines 182-188: setup_collections returns or raises (logged, not fatal)
SrvProvisionDone ==
  /\ srv_pc = "provision"
  /\ is_running' = TRUE
  /\ srv_pc' = "server_start"
  /\ UNCHANGED notServer
  /\ UNCHANGED << srv_config, handlers_installed, shutdown_event,
                  signals_handled, srv_error, hc_pc, hc_cms, health_details,
                  hc_result >>

\* line 191: server.start() returns
SrvServerStartOk ==
  /\ srv_pc = "server_start"
  /\ srv_pc' = "wait"
  /\ UNCHANGED notServer
  /\ UNCHANGED << srv_config, handlers_installed, is_running, shutdown_event,
                  signals_handled, srv_error, hc_pc, hc_cms, health_details,
                  hc_result >>

\* lines 191, 196-198: server.start() raises
SrvServerStartFail ==
  /\ srv_pc = "server_start"
  /\ srv_error' = Some("Exception")
  /\ srv_pc' = "cleanup"
  /\ UNCHANGED notServer
  /\ UNCHANGED << srv_config, handlers_installed, is_running, shutdown_event,
                  signals_handled, hc_pc, hc_cms, health_details, hc_result >>

\* line 194: the wait returns once the event is set
SrvWaitReturns ==
  /\ srv_pc = "wait"
  /\ shutdown_event
  /\ srv_pc' = "cleanup"
  /\ UNCHANGED notServer
  /\ UNCHANGED << srv_config, handlers_installed, is_running, shutdown_event,
                  signals_handled, srv_error, hc_pc, hc_cms, health_details,
                  hc_result >>

\* lines 199-200, 214-230: cleanup(), then start() returns or re-raises
SrvCleanup ==
  /\ srv_pc = "cleanup"
  /\ srv_pc' = IF srv_error = None THEN "returned" ELSE "raised"
  /\ UNCHANGED notServer
  /\ UNCHANGED << srv_config, handlers_installed, is_running, shutdown_event,
                  signals_handled, srv_error, hc_pc, hc_cms, health_details,
                  hc_result >>

\* lines 202-212: a SIGTERM or SIGINT arrives; the loop runs _signal_handler
\* at one of the awaits of start(); shutdown() acts only if _is_running
SrvSignal ==
  /\ handlers_installed
  /\ srv_pc \in {"provision", "server_start", "wait", "cleanup"}
  /\ signals_handled < MaxSignals
  /\ signals_handled' = signals_handled + 1
  /\ IF is_running
     THEN /\ is_running' = FALSE
          /\ shutdown_event' = TRUE
     ELSE UNCHANGED << is_running, shutdown_event >>
  /\ UNCHANGED notServer
  /\ UNCHANGED << srv_config, srv_pc, handlers_installed, srv_error, hc_pc,
                  hc_cms, health_details, hc_result >>

\* lines 58-62, 93-95: the health_check tool, or a direct caller, enters
\* _check_health of the constructed server
HcCall ==
  /\ srv_pc # "idle"
  /\ hc_pc \in {"idle", "done"}
  /\ \E cms \in CmsHealthStates : hc_cms' = cms
  /\ hc_pc' = "payload_cms"
  /\ health_details' = << >>
  /\ hc_result' = None
  /\ UNCHANGED notServer
  /\ UNCHANGED << srv_config, srv_pc, handlers_installed, is_running,
                  shutdown_event, signals_handled, srv_error >>

\* one sub-check of _check_health recorded, the next one is due
HcRecord(key, entry, next) ==
  /\ health_details' = [k \in DOMAIN health_details \cup {key} |->
                          IF k = key THEN entry ELSE health_details[k]]
  /\ hc_pc' = next
  /\ UNCHANGED notServer
  /\ UNCHANGED << srv_config, srv_pc, handlers_installed, is_running,
                  shutdown_event, signals_handled, srv_error, hc_cms,
                  hc_result >>

\* lines 98-102: payload_service.health_check() is awaited and its boolean
\* dropped; it raises in no case, so the except branch is never taken
HcCheckPayload ==
  /\ hc_pc = "payload_cms"
  /\ PayloadHealthCheck(hc_cms) \in BOOLEAN
  /\ HcRecord("payload_cms", [status |-> "healthy"], "llm")

\* lines 105-113: effective_llm_config reads declared fields only
HcCheckLlm ==
  /\ hc_pc = "llm"
  /\ HcRecord("llm", [status |-> "configured"], "configuration")

\* lines 116-122: word_limit_soft and word_limit_hard are declared
HcCheckConfiguration ==
  /\ hc_pc = "configuration"
  /\ HcRecord("configuration", [status |-> "valid"], "return")

\* lines 62-63, 124
HcReturn ==
  /\ hc_pc = "return"
  /\ hc_result' = Some([status |-> "healthy", details |-> health_details])
  /\ hc_pc' = "done"
  /\ UNCHANGED notServer
  /\ UNCHANGED << srv_config, srv_pc, handlers_installed, is_running,
                  shutdown_event, signals_handled, srv_error, hc_cms,
                  health_details >>

\* _signal_handler has run for a signal after start() installed it
SignalHandled == handlers_installed /\ signals_handled > 0

\* the steps of start() itself
NextStart ==
  \/ SrvLogRaises
  \/ SrvInstallHandlers
  \/ SrvProvisionDone
  \/ SrvServerStartOk
  \/ SrvServerStartFail
  \/ SrvWaitReturns
  \/ SrvCleanup

NextServer ==
  \/ NextStart
  \/ SrvSignal
  \/ HcCall
  \/ HcCheckPayload
  \/ HcCheckLlm
  \/ HcCheckConfiguration
  \/ HcReturn

(***************************************************************************)
(* mcp-story-architect-service: PayloadCMSService._select_best_template    *)
(***************************************************************************)

\* a tag or criterion that is None or absent (falsy in the code)
NoTag == "NONE"

T1 == [id |-> "T1", genre_tag |-> "comedy", tone_tag |-> "dark"]

T2 == [id |-> "T2", genre_tag |-> "comedy", tone_tag |-> NoTag]

T3 == [id |-> "T3", genre_tag |-> NoTag, tone_tag |-> NoTag]

TemplatePool == {T1, T2, T3}

\* the docs of the CMS answer: active templates, each at most once, in the
\* order the CMS sorted them (priority, then creation time)
TemplateLists ==
  { s \in SeqsUpTo(TemplatePool, 3) :
      \A i, j \in 1..Len(s) : i # j => s[i] # s[j] }

PromptSelectionCriteria ==
  [primary_genre : {NoTag, "comedy", "drama"},
   primary_tone : {NoTag, "dark", "light"},
   fallback_to_default : BOOLEAN]

\* the first template the loop meets among those at the indices hits
FirstTemplate(templates, hits) ==
  IF hits = {} THEN None
  ELSE Some(templates[CHOOSE i \in hits : \A j \in hits : i <= j])

\* lines 112-121: genre_match and tone_match of the first loop
ExactMatch(criteria, template) ==
  /\ criteria.primary_genre = NoTag \/ template.genre_tag = criteria.primary_genre
  /\ criteria.primary_tone = NoTag \/ template.tone_tag = criteria.primary_tone

\* lines 107-170
select_best_template(templates, criteria) ==
  LET idx == 1..Len(templates)
      exact == FirstTemplate(templates,
                 { i \in idx : ExactMatch(criteria, templates[i]) })
      genre == FirstTemplate(templates,
                 { i \in idx : templates[i].genre_tag = criteria.primary_genre })
      tone == FirstTemplate(templates,
                 { i \in idx : templates[i].tone_tag = criteria.primary_tone })
      default == FirstTemplate(templates,
                 { i \in idx : /\ templates[i].genre_tag = NoTag
                                /\ templates[i].tone_tag = NoTag })
  IN  IF exact # None THEN exact
      ELSE IF criteria.primary_genre # NoTag /\ genre # None THEN genre
      ELSE IF criteria.primary_tone # NoTag /\ tone # None THEN tone
      ELSE IF criteria.fallback_to_default /\ default # None THEN default
      ELSE IF templates # << >> /\ criteria.fallback_to_default
           THEN Some(templates[1])
      ELSE None

SelectIdle ==
  /\ sel_templates = << >>
  /\ sel_criteria = [primary_genre |-> NoTag, primary_tone |-> NoTag,
                     fallback_to_default |-> TRUE]
  /\ sel_pc = "idle"
  /\ sel_result = None

SelectStart ==
  /\ sel_templates \in TemplateLists
  /\ sel_criteria \in PromptSelectionCriteria
  /\ sel_pc = "call"
  /\ sel_result = None

\* line 94: _select_best_template(docs, criteria) returns a template
SelectReturnsTemplate ==
  /\ sel_pc = "call"
  /\ select_best_template(sel_templates, sel_criteria) # None
  /\ sel_result' = select_best_template(sel_templates, sel_criteria)
  /\ sel_pc' = "done"
  /\ UNCHANGED notSelect
  /\ UNCHANGED << sel_templates, sel_criteria >>

\* lines 94-98, 170: no template is selected
SelectReturnsNone ==
  /\ sel_pc = "call"
  /\ select_best_template(sel_templates, sel_criteria) = None
  /\ sel_result' = None
  /\ sel_pc' = "done"
  /\ UNCHANGED notSelect
  /\ UNCHANGED << sel_templates, sel_criteria >>

NextSelect ==
  \/ SelectReturnsTemplate
  \/ SelectReturnsNone

(***************************************************************************)
(* mcp-story-architect-service: CharacterValidationService                 *)
(***************************************************************************)

\* a name as a string: its letters in lower case, how it is cased, and
\* whether white space surrounds it
Name(base, style, padded) == [base |-> base, style |-> style, padded |-> padded]

\* candidates _extract_character_references yields: capitalised words,
\* stripped (lines 131, 146)
CandidatePool ==
  { Name("alice", "Cap", FALSE), Name("bob", "Cap", FALSE),
    Name("zed", "Cap", FALSE) }

\* names the CMS may hold for roster characters
RosterNamePool ==
  { Name("alice", "Cap", FALSE), Name("alice", "lower", TRUE),
    Name("bob", "UPPER", FALSE), Name("carol", "Cap", FALSE) }

Characters == [name : RosterNamePool, role : {"", "protagonist"}]

Rosters == SeqsUpTo(Characters, MaxRoster)

\* the key without lower(): a case-sensitive comparison
NameKey_CaseSensitive(name) == << name.base, name.style >>

\* lines 51-52, 76: name.lower().strip()
NameKey(name) == << name.base, "lower" >>

\* line 51
RosterKeys(roster) == { NameKey(roster[i].name) : i \in 1..Len(roster) }

\* line 52: a dict comprehension, the last character of a key wins
RosterLookup(roster, key) ==
  LET hits == { i \in 1..Len(roster) : NameKey(roster[i].name) = key }
  IN  roster[CHOOSE i \in hits : \A j \in hits : j <= i].name

\* lines 92-101
CharacterNotFoundFlag(ref_name, strict) ==
  [code |-> "CHARACTER_NOT_FOUND",
   severity |-> IF strict THEN "error" ELSE "warning",
   referenced_character |-> Some(ref_name)]

\* lines 190-256: _perform_additional_validations
AdditionalFlags(roster, found) ==
  LET none_found ==
        IF found = {}
        THEN << [code |-> "CHARACTER_NOT_FOUND", severity |-> "warning",
                 referenced_character |-> None] >>
        ELSE << >>
      protagonists == { i \in 1..Len(roster) : roster[i].role = "protagonist" }
      drift ==
        IF protagonists # {} /\ \A i \in protagonists : roster[i].name \notin found
        THEN << [code |-> "CONFLICT_DRIFT", severity |-> "info",
                 referenced_character |-> None] >>
        ELSE << >>
      crowded ==
        IF Cardinality(found) > 3
        THEN << [code |-> "RUNTIME_FEASIBILITY_RISK", severity |-> "warning",
                 referenced_character |-> None] >>
        ELSE << >>
  IN  none_found \o drift \o crowded

CharsIdle ==
  /\ cv_roster = << >>
  /\ cv_refs = {}
  /\ cv_strict = TRUE
  /\ cv_pending = {}
  /\ found_characters = {}
  /\ unknown_characters = {}
  /\ cv_flags = << >>
  /\ cv_pc = "idle"

\* validate_story_arc is called; lines 61-62 have extracted the candidates
CharsStart ==
  /\ cv_roster \in Rosters
  /\ cv_refs \in SUBSET CandidatePool
  /\ cv_strict \in BOOLEAN
  /\ cv_pending = cv_refs
  /\ found_characters = {}
  /\ unknown_characters = {}
  /\ cv_flags = << >>
  /\ cv_pc = "loop"

\* lines 75-87: one turn of the loop over the set, the candidate is in the
\* roster
CvFound ==
  /\ cv_pc = "loop"
  /\ \E ref_name \in cv_pending :
       /\ NameKey(ref_name) \in RosterKeys(cv_roster)
       /\ found_characters' =
            found_characters \cup {RosterLookup(cv_roster, NameKey(ref_name))}
       /\ cv_pending' = cv_pending \ {ref_name}
  /\ UNCHANGED notChars
  /\ UNCHANGED << cv_roster, cv_refs, cv_strict, unknown_characters, cv_flags,
                  cv_pc >>

\* lines 75-76, 88-109: one turn of the loop, the candidate is not in the
\* roster
CvUnknown ==
  /\ cv_pc = "loop"
  /\ \E ref_name \in cv_pending :
       /\ NameKey(ref_name) \notin RosterKeys(cv_roster)
       /\ unknown_characters' = unknown_characters \cup {ref_name}
       /\ cv_flags' = Append(cv_flags, CharacterNotFoundFlag(ref_name, cv_strict))
       /\ cv_pending' = cv_pending \ {ref_name}
  /\ UNCHANGED notChars
  /\ UNCHANGED << cv_roster, cv_refs, cv_strict, found_characters, cv_pc >>

\* lines 111-124: the additional validations, then the return
CvReturn ==
  /\ cv_pc = "loop"
  /\ cv_pending = {}
  /\ cv_flags' = cv_flags \o AdditionalFlags(cv_roster, found_characters)
  /\ cv_pc' = "done"
  /\ UNCHANGED notChars
  /\ UNCHANGED << cv_roster, cv_refs, cv_strict, cv_pending, found_characters,
                  unknown_characters >>

NextChars ==
  \/ CvFound
  \/ CvUnknown
  \/ CvReturn

(***************************************************************************)
(* mcp-story-architect-service: DraftStoryArcTool._get_or_generate_seed    *)
(***************************************************************************)

\* characters of a hexdigest of SHA-256
HexDigestChars == 64

\* lines 373, 380: [:16]
SeedChars == 16

\* values of title, logline and core_conflict, as strings of characters
FieldValues == { << "a" >>, << "a", ":", "a" >> }

\* the request fields a call sees
SeedInputs ==
  [title : FieldValues, logline : FieldValues, core_conflict : FieldValues,
   tone : {"dark", "light"}, project_id : {"absent", "p1"}]

\* hashlib.sha256(s.encode()).hexdigest()[:16]: a value fixed by s
Sha256Hex16(s) == [sha256 |-> s, chars |-> Min2(SeedChars, HexDigestChars)]

\* the hashed string with the tone of the brief in it
ConceptString_WithTone(cb) ==
  cb.title \o << ":" >> \o cb.logline \o << ":" >> \o cb.core_conflict
    \o << ":" >> \o << cb.tone >>

\* line 372: f"{title}:{logline}:{core_conflict}"
ConceptString(cb) ==
  cb.title \o << ":" >> \o cb.logline \o << ":" >> \o cb.core_conflict

\* lines 371-373
ConceptHash(cb) == Sha256Hex16(ConceptString(cb))

\* line 380: sha256(f"story-architect:{concept_hash}")[:16]
LocalSeed(cb) ==
  Sha256Hex16([prefix |-> "story-architect:", concept_hash |-> ConceptHash(cb)])

\* seed_value of the record get_or_create_seed returns: one the CMS held, or
\* the one computed for the project and the hash (payload_service.py 226-227)
CmsSeedValues(cb) ==
  { [stored |-> "s0"],
    Sha256Hex16([project_id |-> cb.project_id, concept_hash |-> ConceptHash(cb),
                 suffix |-> ":story-architect"]) }

SeedGenIdle ==
  /\ sg_enabled = TRUE
  /\ sg_input = None
  /\ sg_history = << >>
  /\ sg_pc = "idle"

SeedGenStart ==
  /\ sg_enabled \in BOOLEAN
  /\ sg_input = None
  /\ sg_history = << >>
  /\ sg_pc = "ready"

\* the call is over: what it saw, what it returned, the CMS calls it made
SgFinish(result, cms_calls) ==
  /\ sg_history' = Append(sg_history,
                          [input |-> sg_input[1], seed |-> result,
                           cms_calls |-> cms_calls])
  /\ sg_pc' = "ready"
  /\ sg_input' = None
  /\ UNCHANGED notSeedGen
  /\ UNCHANGED sg_enabled

\* line 365: _get_or_generate_seed(concept_brief, project_id) is called
SgCall ==
  /\ sg_pc = "ready"
  /\ Len(sg_history) < MaxSeedGenCalls
  /\ \E i \in SeedInputs : sg_input' = Some(i)
  /\ sg_pc' = "running"
  /\ UNCHANGED notSeedGen
  /\ UNCHANGED << sg_enabled, sg_history >>

\* lines 367-368
SgDisabled ==
  /\ sg_pc = "running"
  /\ ~sg_enabled
  /\ SgFinish(None, 0)

\* lines 370-373, 378-380: no project id, the seed is computed in place
SgLocal ==
  /\ sg_pc = "running"
  /\ sg_enabled
  /\ sg_input[1].project_id = "absent"
  /\ SgFinish(Some(LocalSeed(sg_input[1])), 0)

\* lines 375-377: the CMS returns a seed record
SgCmsOk ==
  /\ sg_pc = "running"
  /\ sg_enabled
  /\ sg_input[1].project_id # "absent"
  /\ \E v \in CmsSeedValues(sg_input[1]) : SgFinish(Some(v), 1)

\* lines 376, 382-384: get_or_create_seed raises
SgCmsFail ==
  /\ sg_pc = "running"
  /\ sg_enabled
  /\ sg_input[1].project_id # "absent"
  /\ SgFinish(None, 1)

NextSeedGen ==
  \/ SgCall
  \/ SgDisabled
  \/ SgLocal
  \/ SgCmsOk
  \/ SgCmsFail

(***************************************************************************)
(* mcp-video-generation-service: group_frames_into_segments on its own     *)
(***************************************************************************)

\* frame lists handed to the grouping
GroupingFrames == SeqsUpTo(FramePool, MaxGroupFrames)

\* default_chunk_size values, the non-positive ones included
ChunkSizes == {0, 1, 2, 3}

\* duration_per_segment values in tenths of a second
SegmentDurations == {-10, 0, 30, 50}

\* max_total_runtime values in tenths of a second
TotalRuntimes == {-10, 20, 60, 120, 200}

GroupingIdle ==
  /\ gr_frames = << >>
  /\ gr_chunk_size = DefaultChunkSize
  /\ gr_duration = DefaultDuration
  /\ gr_max_runtime = MaxTotalRuntime
  /\ gr_pc = "idle"
  /\ gr_result = None

GroupingStart ==
  /\ gr_frames \in GroupingFrames
  /\ gr_chunk_size \in ChunkSizes
  /\ gr_duration \in SegmentDurations
  /\ gr_max_runtime \in TotalRuntimes
  /\ gr_pc = "call"
  /\ gr_result = None

\* lines 21-22: no frames, no chunks
GrReturnEmpty ==
  /\ gr_pc = "call"
  /\ gr_frames = << >>
  /\ gr_result' = Some(group_frames_into_segments(gr_frames, gr_chunk_size,
                                                  gr_duration, gr_max_runtime))
  /\ gr_pc' = "done"
  /\ UNCHANGED notGrouping
  /\ UNCHANGED << gr_frames, gr_chunk_size, gr_duration, gr_max_runtime >>

\* lines 24-56: sort, walk, cap
GrReturnChunks ==
  /\ gr_pc = "call"
  /\ gr_frames # << >>
  /\ gr_result' = Some(group_frames_into_segments(gr_frames, gr_chunk_size,
                                                  gr_duration, gr_max_runtime))
  /\ gr_pc' = "done"
  /\ UNCHANGED notGrouping
  /\ UNCHANGED << gr_frames, gr_chunk_size, gr_duration, gr_max_runtime >>

NextGrouping ==
  \/ GrReturnEmpty
  \/ GrReturnChunks

(***************************************************************************)
(* mcp-video-editor-service: the working directories of concurrent         *)
(* assemble_video executions on one temp_dir                               *)
(***************************************************************************)

\* the requests: schema-valid or not, with the ids of their segments
WorkdirRequests ==
  [valid : BOOLEAN,
   segment_ids : { << "SEGMENT_1" >>, << "SEGMENT_1", "SEGMENT_2" >> }]

\* datetime.utcnow().strftime("%Y%m%d%H%M%S%f") of a clock reading: the
\* reading itself, to the microsecond
RequestId(reading) == << "utc", reading >>

InFlight(c) == wd_pc[c] \in { "download", "upload", "cleanup" }

\* the files of other executions still in flight that live under dir
ForeignFiles(c, dir, fs) ==
  { f \in fs : f.dir = dir /\ f.by # c /\ InFlight(f.by) }

\* path.write_bytes: the file is created or replaced
WriteFile(fs, dir, name, c) ==
  { f \in fs : ~(f.dir = dir /\ f.name = name) } \cup
  { [dir |-> dir, name |-> name, by |-> c] }

\* lines 136-139: unlink everything under temp_root
UnlinkAll(fs, dir) == { f \in fs : f.dir # dir }

WorkdirIdle ==
  /\ wd_clock = 0
  /\ wd_req = [c \in Callers |-> [valid |-> FALSE, segment_ids |-> << >>]]
  /\ wd_pc = [c \in Callers |-> "idle"]
  /\ wd_request_id = [c \in Callers |-> None]
  /\ wd_idx = [c \in Callers |-> 0]
  /\ wd_dirs = {}
  /\ wd_files = {}
  /\ wd_harmed = {}

WorkdirStart ==
  /\ wd_clock = 0
  /\ wd_req \in [Callers -> WorkdirRequests]
  /\ wd_pc = [c \in Callers |-> "called"]
  /\ wd_request_id = [c \in Callers |-> None]
  /\ wd_idx = [c \in Callers |-> 0]
  /\ wd_dirs = {}
  /\ wd_files = {}
  /\ wd_harmed = {}

\* the clock shows another microsecond
WdClockAdvance ==
  /\ wd_clock < MaxClock
  /\ wd_clock' = wd_clock + 1
  /\ UNCHANGED notWorkdir
  /\ UNCHANGED << wd_req, wd_pc, wd_request_id, wd_idx, wd_dirs, wd_files, wd_harmed >>

\* lines 50-75 up to the first await: name and make the directory
\* (exist_ok=True), validate, build the timeline, enter _download_segments
WdExecuteAccept(c) ==
  /\ wd_pc[c] = "called"
  /\ wd_req[c].valid
  /\ LET dir == RequestId(wd_clock)
     IN  /\ wd_request_id' = [wd_request_id EXCEPT ![c] = Some(dir)]
         /\ wd_dirs' = wd_dirs \cup { dir }
  /\ wd_idx' = [wd_idx EXCEPT ![c] = 1]
  /\ wd_pc' = [wd_pc EXCEPT ![c] = "download"]
  /\ UNCHANGED notWorkdir
  /\ UNCHANGED << wd_clock, wd_req, wd_files, wd_harmed >>

\* lines 50-56, 127-128, 134-141 without an await in between: name and make
\* the directory, fail validation, empty and remove the directory
WdExecuteReject(c) ==
  /\ wd_pc[c] = "called"
  /\ ~wd_req[c].valid
  /\ LET dir == RequestId(wd_clock)
     IN  /\ wd_request_id' = [wd_request_id EXCEPT ![c] = Some(dir)]
         /\ wd_harmed' = wd_harmed \cup { f.by : f \in ForeignFiles(c, dir, wd_files) }
         /\ wd_files' = UnlinkAll(wd_files, dir)
         /\ wd_dirs' = wd_dirs \ { dir }
  /\ wd_pc' = [wd_pc EXCEPT ![c] = "returned"]
  /\ UNCHANGED notWorkdir
  /\ UNCHANGED << wd_clock, wd_req, wd_idx >>

\* lines 146-152: one segment is fetched and written to temp_root
WdDownloadOk(c) ==
  /\ wd_pc[c] = "download"
  /\ wd_idx[c] <= Len(wd_req[c].segment_ids)
  /\ wd_request_id[c][1] \in wd_dirs
  /\ LET dir  == wd_request_id[c][1]
         name == wd_req[c].segment_ids[wd_idx[c]] \o ".mp4"
     IN  /\ wd_harmed' = wd_harmed \cup
               { f.by : f \in { g \in ForeignFiles(c, dir, wd_files) : g.name = name } }
         /\ wd_files' = WriteFile(wd_files, dir, name, c)
  /\ wd_idx' = [wd_idx EXCEPT ![c] = wd_idx[c] + 1]
  /\ UNCHANGED notWorkdir
  /\ UNCHANGED << wd_clock, wd_req, wd_pc, wd_request_id, wd_dirs >>

\* lines 149-151: the GET fails, or write_bytes finds no directory
WdDownloadFail(c) ==
  /\ wd_pc[c] = "download"
  /\ wd_idx[c] <= Len(wd_req[c].segment_ids)
  /\ wd_pc' = [wd_pc EXCEPT ![c] = "cleanup"]
  /\ UNCHANGED notWorkdir
  /\ UNCHANGED << wd_clock, wd_req, wd_request_id, wd_idx, wd_dirs, wd_files, wd_harmed >>

\* lines 78-86: the media tool reads every downloaded path and writes the
\* output file into temp_root
WdAssembleOk(c) ==
  /\ wd_pc[c] = "download"
  /\ wd_idx[c] > Len(wd_req[c].segment_ids)
  /\ LET dir == wd_request_id[c][1]
     IN  /\ dir \in wd_dirs
         /\ \A i \in 1..Len(wd_req[c].segment_ids) :
              \E f \in wd_files : f.dir = dir /\ f.name = wd_req[c].segment_ids[i] \o ".mp4"
         /\ wd_harmed' = wd_harmed \cup
               { f.by : f \in { g \in ForeignFiles(c, dir, wd_files) : g.name = OutputFile } }
         /\ wd_files' = WriteFile(wd_files, dir, OutputFile, c)
  /\ wd_pc' = [wd_pc EXCEPT ![c] = "upload"]
  /\ UNCHANGED notWorkdir
  /\ UNCHANGED << wd_clock, wd_req, wd_request_id, wd_idx, wd_dirs >>

\* lines 81-86: the media tool fails (an input is gone, the data is bad)
WdAssembleFail(c) ==
  /\ wd_pc[c] = "download"
  /\ wd_idx[c] > Len(wd_req[c].segment_ids)
  /\ wd_pc' = [wd_pc EXCEPT ![c] = "cleanup"]
  /\ UNCHANGED notWorkdir
  /\ UNCHANGED << wd_clock, wd_req, wd_request_id, wd_idx, wd_dirs, wd_files, wd_harmed >>

\* lines 89-125: checksum, upload, assembly record, response (or the
\* failure of one of them)
WdUploadDone(c) ==
  /\ wd_pc[c] = "upload"
  /\ wd_pc' = [wd_pc EXCEPT ![c] = "cleanup"]
  /\ UNCHANGED notWorkdir
  /\ UNCHANGED << wd_clock, wd_req, wd_request_id, wd_idx, wd_dirs, wd_files, wd_harmed >>

\* lines 134-141: the finally block empties and removes temp_root
WdCleanup(c) ==
  /\ wd_pc[c] = "cleanup"
  /\ LET dir == wd_request_id[c][1]
     IN  /\ wd_harmed' = wd_harmed \cup { f.by : f \in ForeignFiles(c, dir, wd_files) }
         /\ wd_files' = UnlinkAll(wd_files, dir)
         /\ wd_dirs' = wd_dirs \ { dir }
  /\ wd_pc' = [wd_pc EXCEPT ![c] = "returned"]
  /\ UNCHANGED notWorkdir
  /\ UNCHANGED << wd_clock, wd_req, wd_request_id, wd_idx >>

NextWorkdir ==
  \/ WdClockAdvance
  \/ \E c \in Callers : WdExecuteAccept(c)
  \/ \E c \in Callers : WdExecuteReject(c)
  \/ \E c \in Callers : WdDownloadOk(c)
  \/ \E c \in Callers : WdDownloadFail(c)
  \/ \E c \in Callers : WdAssembleOk(c)
  \/ \E c \in Callers : WdAssembleFail(c)
  \/ \E c \in Callers : WdUploadDone(c)
  \/ \E c \in Callers : WdCleanup(c)
(***************************************************************************)
(* mcp-story-architect-service: StoryArchitectConfig.effective_llm_config  *)
(* Temperatures are in tenths (7 = 0.7).                                   *)
(***************************************************************************)

\* configurations that pass the validators of StoryArchitectConfig
LlmConfigs ==
  [override_llm_provider    : { None, Some("anthropic") },
   override_llm_model       : { None, Some("claude") },
   override_llm_api_key     : { None, Some("key-o") },
   override_llm_max_tokens  : { None, Some(0), Some(500) },
   override_llm_temperature : { None, Some(0), Some(3), Some(20) },
   openai_model             : { "gpt-4o-mini" },
   openai_api_key           : { "key-a" },
   openai_max_tokens        : { 2000 },
   openai_temperature       : { 0, 7 },
   openai_timeout_seconds   : { 6 }]

\* the value of "x or y" for an optional number x
OrElse(x, y) == IF x # None /\ x[1] # 0 THEN x[1] ELSE y

\* lines 128-135
use_llm_override(config) ==
  /\ config.override_llm_provider # None
  /\ config.override_llm_model # None
  /\ config.override_llm_api_key # None

\* lines 141-148
OverrideBlock(config) ==
  [provider    |-> config.override_llm_provider[1],
   model       |-> config.override_llm_model[1],
   api_key     |-> config.override_llm_api_key[1],
   max_tokens  |-> OrElse(config.override_llm_max_tokens, config.openai_max_tokens),
   temperature |-> OrElse(config.override_llm_temperature, config.openai_temperature),
   timeout     |-> config.openai_timeout_seconds]

\* lines 149-156
OpenaiBlock(config) ==
  [provider    |-> "openai",
   model       |-> config.openai_model,
   api_key     |-> config.openai_api_key,
   max_tokens  |-> config.openai_max_tokens,
   temperature |-> config.openai_temperature,
   timeout     |-> config.openai_timeout_seconds]

LlmConfigIdle ==
  /\ lc_config = None
  /\ lc_pc = "idle"
  /\ lc_result = None

LlmConfigStart ==
  /\ lc_config \in { Some(c) : c \in LlmConfigs }
  /\ lc_pc = "read"
  /\ lc_result = None

\* the property is read with the override fully specified
LcOverride ==
  /\ lc_pc = "read"
  /\ use_llm_override(lc_config[1])
  /\ lc_result' = Some(OverrideBlock(lc_config[1]))
  /\ lc_pc' = "done"
  /\ UNCHANGED notLlmConfig
  /\ UNCHANGED lc_config

\* the property is read with some override field missing
LcOpenai ==
  /\ lc_pc = "read"
  /\ ~use_llm_override(lc_config[1])
  /\ lc_result' = Some(OpenaiBlock(lc_config[1]))
  /\ lc_pc' = "done"
  /\ UNCHANGED notLlmConfig
  /\ UNCHANGED lc_config

NextLlmConfig ==
  \/ LcOverride
  \/ LcOpenai
(***************************************************************************)
(* mcp-story-architect-service: ConceptBrief.validate_tag_arrays           *)
(* A string is its text without surrounding white space, and whether it    *)
(* carries surrounding white space: "  " is [core |-> "", padded |-> TRUE] *)
(***************************************************************************)
TagStrings ==
  { [core |-> "",      padded |-> FALSE],
    [core |-> "",      padded |-> TRUE],
    [core |-> "noir",  padded |-> TRUE],
    [core |-> "drama", padded |-> FALSE] }

TagFields == { "tone_keywords", "genre_tags" }

TagLists == SeqsUpTo(TagStrings, MaxTags)

\* str.strip()
Strip(s) == [core |-> s.core, padded |-> FALSE]

\* truthiness of a string: it is not empty
NonEmptyString(s) == s.core # "" \/ s.padded

\* [x for x in v if keep]
RECURSIVE FilterBlank(_)
FilterBlank(v) ==
  IF v = << >> THEN << >>
  ELSE IF NonEmptyString(Strip(Head(v)))
       THEN << Strip(Head(v)) >> \o FilterBlank(Tail(v))
       ELSE FilterBlank(Tail(v))

\* lines 58-60: limit to 3 items, then strip and drop the blank ones
validate_tag_arrays(v) == FilterBlank(Prefix(v, 3))

TagsIdle ==
  /\ tg_field = "genre_tags"
  /\ tg_input = << >>
  /\ tg_pc = "idle"
  /\ tg_stored = None

TagsStart ==
  /\ tg_field \in TagFields
  /\ tg_input \in TagLists
  /\ tg_pc = "validate"
  /\ tg_stored = None

\* lines 56-57: an empty list is rejected
TgReject ==
  /\ tg_pc = "validate"
  /\ tg_input = << >>
  /\ tg_pc' = "rejected"
  /\ UNCHANGED notTags
  /\ UNCHANGED << tg_field, tg_input, tg_stored >>

\* lines 58-60: the validator returns the list the model stores
TgStore ==
  /\ tg_pc = "validate"
  /\ tg_input # << >>
  /\ tg_stored' = Some(validate_tag_arrays(tg_input))
  /\ tg_pc' = "stored"
  /\ UNCHANGED notTags
  /\ UNCHANGED << tg_field, tg_input >>

NextTags ==
  \/ TgReject
  \/ TgStore
(***************************************************************************)
(* mcp-story-architect-service: StoryArc.validate_emotional_beats          *)
(***************************************************************************)

\* emotional_beats lists of an LLM answer
BeatLists == SeqsUpTo(TagStrings, MaxBeats)

\* line 128: "not v or len(v) != 3"
BeatsRejected(v) == v = << >> \/ Len(v) # 3

\* line 130: [beat.strip() for beat in v if beat.strip()]
validate_emotional_beats(v) == FilterBlank(v)

BeatsIdle ==
  /\ eb_input = << >>
  /\ eb_pc = "idle"
  /\ eb_stored = None

BeatsStart ==
  /\ eb_input \in BeatLists
  /\ eb_pc = "validate"
  /\ eb_stored = None

\* lines 128-129: the validator raises, StoryArc(**raw) fails
EbReject ==
  /\ eb_pc = "validate"
  /\ BeatsRejected(eb_input)
  /\ eb_pc' = "rejected"
  /\ UNCHANGED notBeats
  /\ UNCHANGED << eb_input, eb_stored >>

\* line 130: the validator returns the list the arc holds
EbStore ==
  /\ eb_pc = "validate"
  /\ ~BeatsRejected(eb_input)
  /\ eb_stored' = Some(validate_emotional_beats(eb_input))
  /\ eb_pc' = "stored"
  /\ UNCHANGED notBeats
  /\ UNCHANGED eb_input

NextBeats ==
  \/ EbReject
  \/ EbStore
(***************************************************************************)
(* tests/generate_test_report.py: main() of the report generator           *)
(***************************************************************************)

\* the keys of test_config
ConfiguredServices ==
  { "brain_service", "character_service", "story_service", "orchestrator",
    "celery_redis" }

\* what the five phases can leave in service_statuses and test_results:
\* the set of healthy services, and one status per test that ran
TestOutcomes ==
  [healthy : SUBSET ConfiguredServices,
   websocket_connection : { "passed", "failed" },
   character_creation : { "absent", "passed", "failed" },
   error_handling : { "passed", "failed" }]

\* lines 355-369: the integration check passes with two healthy services
ServiceIntegration(outcome) ==
  IF Cardinality(outcome.healthy) >= 2 THEN "passed" ELSE "failed"

\* test_results as a list of (test_name, status)
TestResults(outcome) ==
  << [test_name |-> "websocket_connection", status |-> outcome.websocket_connection] >>
  \o (IF outcome.character_creation = "absent" THEN << >>
      ELSE << [test_name |-> "character_creation",
               status |-> outcome.character_creation] >>)
  \o << [test_name |-> "service_integration", status |-> ServiceIntegration(outcome)],
        [test_name |-> "error_handling", status |-> outcome.error_handling] >>

CountStatus(results, status) ==
  Cardinality({ i \in 1..Len(results) : results[i].status = status })

\* _identify_critical_issues without the failure-rate check
identify_critical_issues_NoRate(healthy, results) ==
  (IF "brain_service" \notin healthy
   THEN << "Brain service is not available" >> ELSE << >>)
  \o (IF \E i \in 1..Len(results) :
           /\ results[i].test_name = "websocket_connection"
           /\ results[i].status = "failed"
      THEN << "WebSocket connectivity failed" >> ELSE << >>)
  \o (IF healthy = {} THEN << "No services are responding" >> ELSE << >>)

\* _identify_critical_issues (lines 507-531)
identify_critical_issues(healthy, results) ==
  (IF "brain_service" \notin healthy
   THEN << "Brain service is not available" >> ELSE << >>)
  \o (IF \E i \in 1..Len(results) :
           /\ results[i].test_name = "websocket_connection"
           /\ results[i].status = "failed"
      THEN << "WebSocket connectivity failed" >> ELSE << >>)
  \o (IF healthy = {} THEN << "No services are responding" >> ELSE << >>)
  \o (IF Len(results) > 0 /\ 2 * CountStatus(results, "failed") > Len(results)
      THEN << "High test failure rate" >> ELSE << >>)

\* _generate_final_report (lines 416-457), the parts main() reads
generate_final_report(outcome) ==
  [summary |-> [total_tests |-> Len(TestResults(outcome)),
                failed_tests |-> CountStatus(TestResults(outcome), "failed")],
   critical_issues |-> identify_critical_issues(outcome.healthy, TestResults(outcome))]

\* lines 616-627
ExitCode(report) ==
  IF Len(report.critical_issues) > 0 THEN 2
  ELSE IF report.summary.failed_tests > 0 THEN 1
  ELSE 0

ReportIdle ==
  /\ rp_pc = "idle"
  /\ rp_outcome = None
  /\ rp_report = None
  /\ rp_raised = None
  /\ rp_exit = None

ReportStart ==
  /\ rp_pc = "run"
  /\ rp_outcome = None
  /\ rp_report = None
  /\ rp_raised = None
  /\ rp_exit = None

\* line 609: the five phases run and the report is built
RpRunTestsOk ==
  /\ rp_pc = "run"
  /\ \E outcome \in TestOutcomes :
       /\ rp_outcome' = Some(outcome)
       /\ rp_report' = Some(generate_final_report(outcome))
  /\ rp_pc' = "print"
  /\ UNCHANGED notReport
  /\ UNCHANGED << rp_raised, rp_exit >>

\* line 609: run_comprehensive_tests raises (a print it makes fails, the
\* HTTP client cannot be created)
RpRunTestsRaise ==
  /\ rp_pc = "run"
  /\ rp_raised' = Some("run_comprehensive_tests")
  /\ rp_pc' = "except"
  /\ UNCHANGED notReport
  /\ UNCHANGED << rp_outcome, rp_report, rp_exit >>

\* line 610
RpPrintOk ==
  /\ rp_pc = "print"
  /\ rp_pc' = "save"
  /\ UNCHANGED notReport
  /\ UNCHANGED << rp_outcome, rp_report, rp_raised, rp_exit >>

\* line 610: print_report raises (standard output is closed or cannot
\* encode the text)
RpPrintRaise ==
  /\ rp_pc = "print"
  /\ rp_raised' = Some("print_report")
  /\ rp_pc' = "except"
  /\ UNCHANGED notReport
  /\ UNCHANGED << rp_outcome, rp_report, rp_exit >>

\* line 613
RpSaveOk ==
  /\ rp_pc = "save"
  /\ rp_pc' = "decide"
  /\ UNCHANGED notReport
  /\ UNCHANGED << rp_outcome, rp_report, rp_raised, rp_exit >>

\* line 613: save_report raises (the reports directory cannot be made or
\* written)
RpSaveRaise ==
  /\ rp_pc = "save"
  /\ rp_raised' = Some("save_report")
  /\ rp_pc' = "except"
  /\ UNCHANGED notReport
  /\ UNCHANGED << rp_outcome, rp_report, rp_exit >>

\* lines 616-627 and 636-638: the exit code of a saved report
RpExitByReport ==
  /\ rp_pc = "decide"
  /\ rp_exit' = Some(ExitCode(rp_report[1]))
  /\ rp_pc' = "exited"
  /\ UNCHANGED notReport
  /\ UNCHANGED << rp_outcome, rp_report, rp_raised >>

\* lines 629-633 and 636-638: the except branch returns 3
RpExitByException ==
  /\ rp_pc = "except"
  /\ rp_exit' = Some(3)
  /\ rp_pc' = "exited"
  /\ UNCHANGED notReport
  /\ UNCHANGED << rp_outcome, rp_report, rp_raised >>

NextReport ==
  \/ RpRunTestsOk
  \/ RpRunTestsRaise
  \/ RpPrintOk
  \/ RpPrintRaise
  \/ RpSaveOk
  \/ RpSaveRaise
  \/ RpExitByReport
  \/ RpExitByException
(***************************************************************************)
(* Specifications: one per service or component                            *)
(***************************************************************************)
InitSynth ==
  /\ SynthStart
  /\ EditorIdle /\ DraftIdle /\ SeedIdle /\ ServerIdle
  /\ SelectIdle /\ CharsIdle /\ SeedGenIdle /\ GroupingIdle
  /\ WorkdirIdle /\ LlmConfigIdle /\ TagsIdle /\ BeatsIdle
  /\ ReportIdle

SpecSynth == InitSynth /\ [][NextSynth]_vars

InitAssemble ==
  /\ EditorStart
  /\ SynthIdle /\ DraftIdle /\ SeedIdle /\ ServerIdle
  /\ SelectIdle /\ CharsIdle /\ SeedGenIdle /\ GroupingIdle
  /\ WorkdirIdle /\ LlmConfigIdle /\ TagsIdle /\ BeatsIdle
  /\ ReportIdle

SpecAssemble == InitAssemble /\ [][NextAssemble]_vars

InitDraft ==
  /\ DraftStart
  /\ SynthIdle /\ EditorIdle /\ SeedIdle /\ ServerIdle
  /\ SelectIdle /\ CharsIdle /\ SeedGenIdle /\ GroupingIdle
  /\ WorkdirIdle /\ LlmConfigIdle /\ TagsIdle /\ BeatsIdle
  /\ ReportIdle

SpecDraft == InitDraft /\ [][NextDraft]_vars

InitSeed ==
  /\ SeedStart
  /\ SynthIdle /\ EditorIdle /\ DraftIdle /\ ServerIdle
  /\ SelectIdle /\ CharsIdle /\ SeedGenIdle /\ GroupingIdle
  /\ WorkdirIdle /\ LlmConfigIdle /\ TagsIdle /\ BeatsIdle
  /\ ReportIdle

SpecSeed == InitSeed /\ [][NextSeed]_vars

InitServer ==
  /\ ServerStart
  /\ SynthIdle /\ EditorIdle /\ DraftIdle /\ SeedIdle
  /\ SelectIdle /\ CharsIdle /\ SeedGenIdle /\ GroupingIdle
  /\ WorkdirIdle /\ LlmConfigIdle /\ TagsIdle /\ BeatsIdle
  /\ ReportIdle

SpecServer == InitServer /\ [][NextServer]_vars

\* the event loop runs every step of start() that is ready; signals and
\* tool calls come from outside and may never come
SpecServerFair == SpecServer /\ WF_vars(NextStart)

InitSelect ==
  /\ SelectStart
  /\ SynthIdle /\ EditorIdle /\ DraftIdle /\ SeedIdle
  /\ ServerIdle /\ CharsIdle /\ SeedGenIdle /\ GroupingIdle
  /\ WorkdirIdle /\ LlmConfigIdle /\ TagsIdle /\ BeatsIdle
  /\ ReportIdle

SpecSelect == InitSelect /\ [][NextSelect]_vars

InitChars ==
  /\ CharsStart
  /\ SynthIdle /\ EditorIdle /\ DraftIdle /\ SeedIdle
  /\ ServerIdle /\ SelectIdle /\ SeedGenIdle /\ GroupingIdle
  /\ WorkdirIdle /\ LlmConfigIdle /\ TagsIdle /\ BeatsIdle
  /\ ReportIdle

SpecChars == InitChars /\ [][NextChars]_vars

InitSeedGen ==
  /\ SeedGenStart
  /\ SynthIdle /\ EditorIdle /\ DraftIdle /\ SeedIdle
  /\ ServerIdle /\ SelectIdle /\ CharsIdle /\ GroupingIdle
  /\ WorkdirIdle /\ LlmConfigIdle /\ TagsIdle /\ BeatsIdle
  /\ ReportIdle

SpecSeedGen == InitSeedGen /\ [][NextSeedGen]_vars

InitGrouping ==
  /\ GroupingStart
  /\ SynthIdle /\ EditorIdle /\ DraftIdle /\ SeedIdle
  /\ ServerIdle /\ SelectIdle /\ CharsIdle /\ SeedGenIdle
  /\ WorkdirIdle /\ LlmConfigIdle /\ TagsIdle /\ BeatsIdle
  /\ ReportIdle

SpecGrouping == InitGrouping /\ [][NextGrouping]_vars

InitWorkdir ==
  /\ WorkdirStart
  /\ SynthIdle /\ EditorIdle /\ DraftIdle /\ SeedIdle
  /\ ServerIdle /\ SelectIdle /\ CharsIdle /\ SeedGenIdle
  /\ GroupingIdle /\ LlmConfigIdle /\ TagsIdle /\ BeatsIdle
  /\ ReportIdle

SpecWorkdir == InitWorkdir /\ [][NextWorkdir]_vars

InitLlmConfig ==
  /\ LlmConfigStart
  /\ SynthIdle /\ EditorIdle /\ DraftIdle /\ SeedIdle
  /\ ServerIdle /\ SelectIdle /\ CharsIdle /\ SeedGenIdle
  /\ GroupingIdle /\ WorkdirIdle /\ TagsIdle /\ BeatsIdle
  /\ ReportIdle

SpecLlmConfig == InitLlmConfig /\ [][NextLlmConfig]_vars

InitTags ==
  /\ TagsStart
  /\ SynthIdle /\ EditorIdle /\ DraftIdle /\ SeedIdle
  /\ ServerIdle /\ SelectIdle /\ CharsIdle /\ SeedGenIdle
  /\ GroupingIdle /\ WorkdirIdle /\ LlmConfigIdle /\ BeatsIdle
  /\ ReportIdle

SpecTags == InitTags /\ [][NextTags]_vars

InitBeats ==
  /\ BeatsStart
  /\ SynthIdle /\ EditorIdle /\ DraftIdle /\ SeedIdle
  /\ ServerIdle /\ SelectIdle /\ CharsIdle /\ SeedGenIdle
  /\ GroupingIdle /\ WorkdirIdle /\ LlmConfigIdle /\ TagsIdle
  /\ ReportIdle

SpecBeats == InitBeats /\ [][NextBeats]_vars

InitReport ==
  /\ ReportStart
  /\ SynthIdle /\ EditorIdle /\ DraftIdle /\ SeedIdle
  /\ ServerIdle /\ SelectIdle /\ CharsIdle /\ SeedGenIdle
  /\ GroupingIdle /\ WorkdirIdle /\ LlmConfigIdle /\ TagsIdle
  /\ BeatsIdle

SpecReport == InitReport /\ [][NextReport]_vars

(***************************************************************************)
(* C1: synthesize_video_segments is fail-fast.  The provider is called for *)
(* the segment specs in order SEGMENT_1, SEGMENT_2, ...; the first failing *)
(* call appends exactly one failed-segment entry (that segment's id, error *)
(* "provider_error", the failure's message) and ends the loop, so          *)
(* failed_segments has at most one entry and video_segments is exactly the *)
(* segments before the failing one, in order.                              *)
(***************************************************************************)
C1_FailFast ==
  /\ Len(failed_segments) <= 1
  /\ \A i \in 1..Len(segment_specs) :
        segment_specs[i].segment_id = "SEGMENT_" \o ToString(i)
  /\ Len(provider_calls) = Len(video_segments) + Len(failed_segments)
  /\ \A i \in 1..Len(provider_calls) :
        /\ provider_calls[i].segment_id = segment_specs[i].segment_id
        /\ (provider_calls[i].error # None) <=> (i = Len(provider_calls) /\ failed_segments # <<>>)
  /\ \A i \in 1..Len(video_segments) :
        video_segments[i].segment_id = segment_specs[i].segment_id
  /\ failed_segments # <<>> =>
        LET k == Len(provider_calls)
        IN  /\ failed_segments[1].segment_id = segment_specs[k].segment_id
            /\ failed_segments[1].error = "provider_error"
            /\ failed_segments[1].message = provider_calls[k].error[1]
            /\ sy_pc \in {"break", "done"}
  /\ sy_pc = "done" =>
        /\ sy_result = Some([video_segments |-> video_segments,
                             failed_segments |-> failed_segments])
        /\ failed_segments = <<>> => Len(video_segments) = Len(segment_specs)

\* segment 2 of 3 failed: one success, one failure, segment 3 never attempted
C1_Witness ==
  /\ sy_pc = "done"
  /\ Len(segment_specs) = 3
  /\ Len(video_segments) = 1
  /\ Len(failed_segments) = 1
  /\ Len(provider_calls) = 2


(***************************************************************************)
(* C2: every execution of AssembleVideoTool.execute that ends with a       *)
(* final_edit performed exactly these steps, each once and in this order:  *)
(* the download of every segment in request order, the media tool, the     *)
(* checksum, the media upload, the creation of the assembly record, the    *)
(* building of the response.                                               *)
(***************************************************************************)
C2_StrictSequence ==
  IsFinalEdit(av_pending) =>
    LET n == Len(input_data.video_segments)
    IN  /\ Len(av_trace) = n + 5
        /\ \A i \in 1..n :
             /\ av_trace[i].op = "download"
             /\ av_trace[i].seg = i
             /\ av_trace[i].ok
        /\ av_trace[n + 1].op = "ffmpeg" /\ av_trace[n + 1].ok
        /\ av_trace[n + 2].op = "checksum" /\ av_trace[n + 2].ok
        /\ av_trace[n + 3].op = "upload" /\ av_trace[n + 3].ok
        /\ av_trace[n + 4].op = "create_assembly" /\ av_trace[n + 4].ok
        /\ av_trace[n + 5].op = "respond"

\* a request of three segments returned its final_edit
C2_Witness ==
  /\ av_pc = "returned"
  /\ IsFinalEdit(av_result)
  /\ Len(input_data.video_segments) = 3

(***************************************************************************)
(* C3 as stated: a request is accepted if and only if it has 1 to 3        *)
(* segments, every duration d has 0 < d <= 15 and the durations sum to at  *)
(* most 15.0; every other request ends with the ValidationError envelope   *)
(* and performs no download, media-tool run, upload or record creation.    *)
(***************************************************************************)
C3_AcceptsIffSegmentConditions ==
  /\ av_pc \notin {"start", "validate"} =>
       (AvAccepted <=> SegmentConditions(input_data))
  /\ (av_pc \notin {"start", "validate"} /\ ~SegmentConditions(input_data)) =>
       /\ av_trace = <<>>
       /\ av_pc # "raised"
       /\ av_pending = Some(ErrorEnvelope("ValidationError", "validation error"))
       /\ av_pc = "returned" => av_result = av_pending

(***************************************************************************)
(* C3 as amended: once the working directory exists, a request is accepted *)
(* if and only if its other fields are schema-valid and the segment        *)
(* conditions hold (a sum of exactly 15.0 is accepted).  Every other       *)
(* request performs no download, media-tool run, upload or record          *)
(* creation, and ends with the ValidationError envelope unless creating    *)
(* the working directory, which precedes validation, raised.               *)
(***************************************************************************)
C3_AcceptsIffSchemaValid ==
  LET good == input_data.well_formed /\ SegmentConditions(input_data)
  IN  /\ av_pc \notin {"start", "validate", "raised"} => (AvAccepted <=> good)
      /\ ~good =>
           /\ av_trace = <<>>
           /\ av_pc \notin {"start", "validate", "raised"} =>
                av_pending = Some(ErrorEnvelope("ValidationError", "validation error"))
           /\ av_pc = "returned" => av_result = av_pending

\* a request of 5 s + 10 s, exactly 15.0 s, was accepted and ran through
C3_Witness ==
  /\ av_pc = "returned"
  /\ AvAccepted
  /\ IsFinalEdit(av_result)
  /\ Len(input_data.video_segments) = 2
  /\ SumSeq([i \in 1..2 |-> input_data.video_segments[i].duration_seconds]) = 150000

(***************************************************************************)
(* C4: a failure of a segment download or of the media tool aborts the     *)
(* request.  The result is an error envelope carrying the failure's        *)
(* message; the failed step is the last pipeline step; after a download    *)
(* failure the media tool is never invoked, and after either failure the   *)
(* media upload and the assembly-record creation are never invoked.        *)
(***************************************************************************)
C4_DownloadOrToolFailureAborts ==
  (av_failure # None /\ av_failure[1].stage \in {"download", "ffmpeg"}) =>
    /\ IsErrorEnvelope(av_pending)
    /\ av_pending[1].error.message = av_failure[1].message
    /\ av_pc \in {"cleanup", "return", "returned"}
    /\ av_pc = "returned" => av_result = av_pending
    /\ av_trace[Len(av_trace)].op = av_failure[1].stage
    /\ ~av_trace[Len(av_trace)].ok
    /\ \A i \in 1..(Len(av_trace) - 1) : av_trace[i].ok
    /\ TraceOps \cap {"checksum", "upload", "create_assembly", "respond"} = {}
    /\ av_failure[1].stage = "download" => "ffmpeg" \notin TraceOps

\* the second of three downloads failed and execute returned the envelope
C4_Witness ==
  /\ av_pc = "returned"
  /\ av_failure # None
  /\ av_failure[1].stage = "download"
  /\ Len(input_data.video_segments) = 3
  /\ Len(av_trace) = 2
  /\ IsErrorEnvelope(av_result)

(***************************************************************************)
(* C5: on every exit path of execute that follows the creation of the      *)
(* working directory, the deletion of every file under the directory and   *)
(* of the directory itself is attempted before execute returns, and a      *)
(* cleanup failure never changes the returned value.                       *)
(***************************************************************************)
C5_CleanupAttemptsEverything ==
  av_pc = "returned" =>
    /\ files \subseteq unlink_attempted
    /\ rmdir_attempted
    /\ av_result = av_pending

(***************************************************************************)
(* C6: the entry points never raise: whatever the argument object and      *)
(* whatever fails, execute returns the success object or an error          *)
(* envelope; no exception escapes.                                         *)
(***************************************************************************)
C6_NeverRaises == ds_pc # "raised" /\ av_pc # "raised"

(***************************************************************************)
(* C7: within one draft_story_arc request the stages are entered in the    *)
(* order validation, gather, render, generate, validate/flag, persist,     *)
(* respond, each at most once.  The LLM is called at most once, and only   *)
(* after the input validated and a template was obtained and rendered;     *)
(* persistence happens only after the LLM output passed story-arc          *)
(* validation; the stage that fails is the last stage of the request.      *)
(***************************************************************************)
C7_StagesStrictlySequential ==
  /\ ds_trace = Prefix(StageOrder, Len(ds_trace))
  /\ llm_calls <= 1
  /\ llm_calls = 1 =>
       /\ DraftStoryArcRequestValid(ds_input)
       /\ prompt_template # None
       /\ rendered_prompt # None
       /\ Prefix(ds_trace, 4) = << "validate", "gather", "render", "generate" >>
  /\ "generate" \in DraftStages => llm_calls = 1
  /\ "persist" \in DraftStages =>
       /\ raw_story_arc # None
       /\ raw_story_arc[1].object
       /\ StoryArcValid(raw_story_arc[1])
  /\ (ds_failure # None /\ ds_failure[1].stage # "trace") =>
       /\ ds_pc = "returned"
       /\ ds_trace[Len(ds_trace)] = ds_failure[1].stage

\* the one LLM call was made after validation, gather and render, and the
\* request ended in the stage after it
C7_Witness ==
  /\ ds_pc = "returned"
  /\ llm_calls = 1
  /\ ds_trace = << "validate", "gather", "render", "generate", "validate_arc" >>
  /\ ds_failure # None
  /\ ds_failure[1].stage = "validate_arc"

(***************************************************************************)
(* C8: in _gather_resources the three fetches all run to completion; the   *)
(* pipeline goes on to rendering if and only if a template was obtained;   *)
(* without a template the request ends with an error envelope of type      *)
(* StoryArcGenerationError saying "No suitable prompt template found",     *)
(* whatever the other two fetches did.                                     *)
(***************************************************************************)
C8_GatherIndependentFetches ==
  GatherOver =>
    /\ GatherDone
    /\ ("render" \in DraftStages \/ ds_pc = "render")
         <=> fetch["prompt_template"] = "template"
    /\ fetch["prompt_template"] # "template" =>
         /\ ds_pc = "returned"
         /\ ds_result[1].error.type = "StoryArcGenerationError"
         /\ ds_result[1].error.message = "No suitable prompt template found"

(***************************************************************************)
(* C9: the three LLM failure classes give three distinct envelope types:   *)
(* a timeout gives LLMTimeoutError, content that is not valid JSON gives   *)
(* LLMValidationError, every other failure of the call (provider error,    *)
(* no choices, empty content) gives LLMError.                              *)
(***************************************************************************)
C9_ThreeLlmErrorTypes ==
  (ds_failure # None /\ ds_failure[1].stage = "generate") =>
    ds_result[1].error.type =
      CASE ds_failure[1].cause = "timeout" -> "LLMTimeoutError"
        [] ds_failure[1].cause = "invalid_json" -> "LLMValidationError"
        [] OTHER -> "LLMError"

C11_OneSeedPerTriple ==
  /\ Len(seed_docs) <= 1
  /\ \A c \in Callers :
       (sc_ret[c] # None /\ "seed_value" \in DOMAIN sc_ret[c][1]) =>
         /\ Len(seed_docs) = 1
         /\ sc_ret[c][1].seed_value = seed_docs[1].seed_value

C19_HealthReportsCmsFailure ==
  (hc_pc = "done" /\ ~PayloadHealthCheck(hc_cms)) =>
    /\ DOMAIN hc_result[1].details = HealthChecks
    /\ hc_result[1].details["payload_cms"].status # "healthy"
    /\ "error" \in DOMAIN hc_result[1].details["payload_cms"]

\* C13: given exactly the three templates T1 (comedy, dark), T2 (comedy, no
\* tone) and T3 (untagged), in any order, the selection returns T1 for
\* (comedy, dark), T2 for (comedy, light) and T3 for criteria with neither
\* genre nor tone
C13_MostSpecificTemplateWins ==
  (sel_pc = "done" /\ Len(sel_templates) = 3) =>
    /\ (sel_criteria.primary_genre = "comedy" /\ sel_criteria.primary_tone = "dark")
         => sel_result = Some(T1)
    /\ (sel_criteria.primary_genre = "comedy" /\ sel_criteria.primary_tone = "light")
         => sel_result = Some(T2)
    /\ (sel_criteria.primary_genre = NoTag /\ sel_criteria.primary_tone = NoTag)
         => sel_result = Some(T3)

\* the LLM answer of a finished request was an object that StoryArc accepts
ArcProcessed ==
  /\ ds_pc = "returned"
  /\ "validate_arc" \in DraftStages
  /\ raw_story_arc[1].object
  /\ StoryArcValid(raw_story_arc[1])

\* C14: for accepted word limits and an arc of T words in all, processing
\* the arc yields exactly one error word-limit flag if T > hard, exactly one
\* warning word-limit flag if soft < T <= hard, none if T <= soft, and never
\* a hard and a soft flag together
C14_WordLimitFlags ==
  ArcProcessed =>
    LET T == raw_story_arc[1].total_words
        soft == ds_config.word_limit_soft
        hard == ds_config.word_limit_hard
        errors == WordLimitFlagCount(continuity_flags, "error")
        warnings == WordLimitFlagCount(continuity_flags, "warning")
    IN  /\ T > hard => errors = 1 /\ warnings = 0
        /\ (soft < T /\ T <= hard) => warnings = 1 /\ errors = 0
        /\ T <= soft => errors = 0 /\ warnings = 0
        /\ errors + warnings <= 1

\* C15: when the LLM output is a valid arc but for one embedded continuity
\* flag that fails validation, the request succeeds, that flag is dropped and
\* the embedded flags that validate are kept
C15_InvalidEmbeddedFlagDropped ==
  ( /\ ds_pc = "returned"
    /\ "validate_arc" \in DraftStages
    /\ raw_story_arc[1].object
    /\ raw_story_arc[1].setup_keys
    /\ raw_story_arc[1].beats_ok
    /\ \E i \in 1..Len(raw_story_arc[1].continuity_flags) :
         ~ContinuityFlagValid(raw_story_arc[1].continuity_flags[i]) ) =>
    /\ IsDraftSuccess(ds_result)
    /\ continuity_flags = ExtractFlags(raw_story_arc[1])

\* C16: whenever a check has a flag to synthesize (here: the words of the arc
\* exceed the soft limit), execute returns the success response and the
\* collected flags hold the synthesized flag
C16_FlagsDoNotFailRequest ==
  (ArcProcessed /\ raw_story_arc[1].total_words > ds_config.word_limit_soft) =>
    /\ IsDraftSuccess(ds_result)
    /\ WordLimitFlagCount(continuity_flags, "error")
         + WordLimitFlagCount(continuity_flags, "warning") >= 1

\* two names are the same but for the case of their letters (and white space
\* around them)
SameNameIgnoringCase(a, b) == a.base = b.base

\* the candidate has a namesake in the roster
InRoster(ref_name) ==
  \E i \in 1..Len(cv_roster) : SameNameIgnoringCase(cv_roster[i].name, ref_name)

\* flags whose context names the candidate
FlagsNaming(ref_name) ==
  { i \in 1..Len(cv_flags) : cv_flags[i].referenced_character = Some(ref_name) }

\* C17: validate_story_arc classifies every candidate exactly once: one
\* that equals a roster name but for case is found and gets no flag; any
\* other is unknown and gets exactly one CHARACTER_NOT_FOUND flag naming it,
\* of severity error under strict validation and warning otherwise; found
\* and unknown share no name; a candidate absent from a non-empty roster
\* yields at least one CHARACTER_NOT_FOUND flag
C17_CandidatesClassifiedOnce ==
  cv_pc = "done" =>
    /\ \A r \in cv_refs :
         IF InRoster(r)
         THEN /\ r \notin unknown_characters
              /\ \E n \in found_characters : SameNameIgnoringCase(n, r)
              /\ FlagsNaming(r) = {}
         ELSE /\ r \in unknown_characters
              /\ ~\E n \in found_characters : SameNameIgnoringCase(n, r)
              /\ Cardinality(FlagsNaming(r)) = 1
              /\ \A i \in FlagsNaming(r) :
                   /\ cv_flags[i].code = "CHARACTER_NOT_FOUND"
                   /\ cv_flags[i].severity = IF cv_strict THEN "error" ELSE "warning"
    /\ found_characters \cap unknown_characters = {}
    /\ unknown_characters \subseteq cv_refs
    /\ (cv_roster # << >> /\ \E r \in cv_refs : ~InRoster(r)) =>
         \E i \in 1..Len(cv_flags) : cv_flags[i].code = "CHARACTER_NOT_FOUND"

\* a finished validation that met a candidate spelled otherwise than its
\* roster namesake, and a candidate with no namesake
C17_Witness ==
  /\ cv_pc = "done"
  /\ \E r \in cv_refs :
       /\ InRoster(r)
       /\ r \notin { cv_roster[i].name : i \in 1..Len(cv_roster) }
  /\ \E r \in cv_refs : ~InRoster(r) /\ FlagsNaming(r) # {}
  /\ found_characters # {}

\* finished calls made with seeding enabled and without a project id
LocalCalls ==
  { i \in 1..Len(sg_history) :
      sg_enabled /\ sg_history[i].input.project_id = "absent" }

\* the three fields the seed is derived from
ConceptTriple(cb) == << cb.title, cb.logline, cb.core_conflict >>

\* two briefs differ in exactly one of the three fields
DifferInOneField(a, b) ==
  Cardinality({ k \in 1..3 : ConceptTriple(a)[k] # ConceptTriple(b)[k] }) = 1

\* C18: with seeding enabled and no project id the returned seed has 16
\* characters, no CMS seed call is made, two calls with the same title,
\* logline and core conflict return the same seed whatever else differs, and
\* briefs that differ in exactly one of the three fields are hashed from
\* different strings
C18_SeedDependsOnConceptOnly ==
  \A i \in LocalCalls :
    /\ sg_history[i].seed # None
    /\ sg_history[i].seed[1].chars = 16
    /\ sg_history[i].cms_calls = 0
    /\ \A j \in LocalCalls :
         /\ ConceptTriple(sg_history[i].input) = ConceptTriple(sg_history[j].input)
              => sg_history[i].seed = sg_history[j].seed
         /\ DifferInOneField(sg_history[i].input, sg_history[j].input)
              => sg_history[i].seed[1].sha256.concept_hash.sha256
                   # sg_history[j].seed[1].sha256.concept_hash.sha256

\* two finished local calls with the same triple and different tones
C18_Witness ==
  /\ Len(sg_history) >= 2
  /\ \E i, j \in LocalCalls :
       /\ i # j
       /\ ConceptTriple(sg_history[i].input) = ConceptTriple(sg_history[j].input)
       /\ sg_history[i].input.tone # sg_history[j].input.tone

\* number of chunks the walk over the sorted frames forms, before any cap
WalkedChunks ==
  Len(WalkFrames(SortFrames(gr_frames), << >>, << >>, None, gr_chunk_size))

\* C20: for a non-empty frame list the number of returned chunks is
\* min(chunks of the walk, max(1, min(3, floor(max_total_runtime / d)))),
\* d being duration_per_segment or 3.0 s when that is not positive, hence
\* between 1 and 3; every returned chunk has 1 or 2 frames whatever
\* default_chunk_size is; an empty frame list gives an empty result
C20_GroupingCapsResult ==
  gr_pc = "done" =>
    LET chunks == gr_result[1]
        d == IF gr_duration <= 0 THEN 30 ELSE gr_duration
        cap == Max2(1, Min2(3, gr_max_runtime \div d))
    IN  IF gr_frames = << >>
        THEN chunks = << >>
        ELSE /\ Len(chunks) = Min2(WalkedChunks, cap)
             /\ Len(chunks) >= 1
             /\ Len(chunks) <= 3
             /\ \A i \in 1..Len(chunks) : Len(chunks[i]) \in {1, 2}

\* four chunks were walked and three returned, with a chunk size and a
\* duration that are not positive
C20_Witness ==
  /\ gr_pc = "done"
  /\ WalkedChunks = 4
  /\ Len(gr_result[1]) = 3
  /\ gr_chunk_size <= 0
  /\ gr_duration <= 0

(***************************************************************************)
(* Claims on video generation, assembly and the story models (C21 - C30)   *)
(***************************************************************************)
RECURSIVE Flatten(_)
Flatten(chunks) ==
  IF chunks = << >> THEN << >> ELSE Head(chunks) \o Flatten(Tail(chunks))

CountIn(seq, x) == Cardinality({ i \in 1..Len(seq) : seq[i] = x })

\* flat holds the smallest frames of the input, each as often as the input
\* has it at most, in ascending (scene_number, shot_order) order
IsSortedPrefixOf(flat, input) ==
  /\ \A i \in 1..Len(flat) : \A j \in 1..Len(flat) :
       i < j => ~FrameKeyLess(flat[j], flat[i])
  /\ \A f \in FramePool :
       /\ CountIn(flat, f) <= CountIn(input, f)
       /\ CountIn(flat, f) < CountIn(input, f) =>
            \A i \in 1..Len(flat) : ~FrameKeyLess(f, flat[i])

\* C21: with default_chunk_size 2 every returned chunk holds frames of one
\* scene_number, and the returned chunks, concatenated in order, are a prefix
\* of the input frames sorted ascending by (scene_number, shot_order): no
\* frame before the truncation point is skipped, repeated or reordered,
\* whatever the order of the input list
C21_ChunksWithinSceneInOrder ==
  (gr_pc = "done" /\ gr_chunk_size = DefaultChunkSize) =>
    LET chunks == gr_result[1]
    IN  /\ \A i \in 1..Len(chunks) : \A j \in 1..Len(chunks[i]) :
             chunks[i][j].scene_number = chunks[i][1].scene_number
        /\ IsSortedPrefixOf(Flatten(chunks), gr_frames)

\* an input given in descending order, spanning two scenes, that is cut
\* short by the cap: frames of scene 1 come back first, in a chunk of their
\* own, and a frame of the input is left out
C21_Witness ==
  /\ gr_pc = "done"
  /\ gr_chunk_size = DefaultChunkSize
  /\ Len(gr_frames) = 4
  /\ FrameKeyLess(gr_frames[4], gr_frames[1])
  /\ Len(gr_result[1]) >= 2
  /\ gr_result[1][1][1].scene_number # gr_result[1][2][1].scene_number
  /\ Len(Flatten(gr_result[1])) < Len(gr_frames)

\* the durations of the request's segments, and the sum of the first n
SegDurations == [i \in 1..Len(input_data.video_segments) |->
                   input_data.video_segments[i].duration_seconds]

SumFirst(n) == SumSeq(SubSeq(SegDurations, 1, n))

\* what every reading of C22 shares: one event per segment in request
\* order, starting at 0, back to back, all with the request's transition
TimelineShape ==
  /\ Len(timeline) = Len(input_data.video_segments)
  /\ \A i \in 1..Len(timeline) :
       /\ timeline[i].segment_id = input_data.video_segments[i].segment_id
       /\ timeline[i].transition_out =
            (IF input_data.assembly_settings = None
             THEN "hard_cut" ELSE input_data.assembly_settings[1])
  /\ timeline[1].start_time = 0
  /\ \A i \in 2..Len(timeline) : timeline[i].start_time = timeline[i-1].end_time

\* C22 as stated: for every accepted request the timeline has one event per
\* segment in request order, the first starts at 0, each later one starts
\* where the previous ends, each event's end minus its start equals its
\* segment's duration to 3 decimal places, the last end equals the sum of
\* the durations (to 3 decimal places) and is at most 15 s, and every
\* transition_out is the request's transition (hard_cut by default)
C22_EventLengthIsDuration ==
  AvAccepted =>
    /\ TimelineShape
    /\ \A i \in 1..Len(timeline) :
         Round3(timeline[i].end_time - timeline[i].start_time) = Round3(SegDurations[i])
    /\ timeline[Len(timeline)].end_time = Round3(SumFirst(Len(timeline)))
    /\ timeline[Len(timeline)].end_time <= MaxTotalDuration

\* C22 as amended: the boundaries are the running sums of the durations,
\* each rounded to 3 decimal places: event i starts at round(d1+..+d(i-1), 3)
\* and ends at round(d1+..+di, 3), so its length is within 0.001 s of its
\* segment's duration and equal to it when the durations have at most 3
\* decimals; the last end is round(sum, 3) and at most 15 s; one event per
\* segment in request order, the first at 0, back to back, every
\* transition_out the request's transition (hard_cut by default)
C22_BoundariesAreRoundedSums ==
  AvAccepted =>
    /\ TimelineShape
    /\ \A i \in 1..Len(timeline) :
         /\ timeline[i].start_time = Round3(SumFirst(i - 1))
         /\ timeline[i].end_time = Round3(SumFirst(i))
         /\ timeline[i].end_time - timeline[i].start_time - SegDurations[i] \in -10..10
         /\ (\A j \in 1..i : SegDurations[j] % 10 = 0) =>
              timeline[i].end_time - timeline[i].start_time = SegDurations[i]
    /\ timeline[Len(timeline)].end_time <= MaxTotalDuration

\* an accepted request of three segments of 1.0004 s with a crossfade: the
\* second event is 1.001 s long
C22_Witness ==
  /\ AvAccepted
  /\ av_pc = "returned"
  /\ Len(timeline) = 3
  /\ \A i \in 1..3 : SegDurations[i] = 10004
  /\ timeline[2].end_time - timeline[2].start_time = 10010
  /\ timeline[3].transition_out = "crossfade_0p5"

\* C23: working directories are private per request: in every interleaving
\* of concurrent assemble_video executions no two requests in flight use the
\* same working directory, and no request in flight loses a file it
\* downloaded or produced to the writes or the cleanup of another
C23_WorkdirsPrivate ==
  /\ \A c1 \in Callers : \A c2 \in Callers :
       (c1 # c2 /\ InFlight(c1) /\ InFlight(c2)) =>
         wd_request_id[c1] # wd_request_id[c2]
  /\ wd_harmed = {}

\* C24: effective_llm_config is the override block exactly when override
\* provider, model and api_key are all set; then provider, model and api_key
\* are the override values, and max_tokens and temperature are the override
\* values whenever those are set (an override temperature of 0.0 included)
\* and the OpenAI values only when they are unset; when any of the three is
\* missing every field comes from the OpenAI block with provider "openai"
C24_EffectiveLlmConfig ==
  lc_pc = "done" =>
    LET config == lc_config[1]
        result == lc_result[1]
    IN  IF /\ config.override_llm_provider # None
           /\ config.override_llm_model # None
           /\ config.override_llm_api_key # None
        THEN /\ result.provider = config.override_llm_provider[1]
             /\ result.model = config.override_llm_model[1]
             /\ result.api_key = config.override_llm_api_key[1]
             /\ result.max_tokens =
                  (IF config.override_llm_max_tokens # None
                   THEN config.override_llm_max_tokens[1] ELSE config.openai_max_tokens)
             /\ result.temperature =
                  (IF config.override_llm_temperature # None
                   THEN config.override_llm_temperature[1] ELSE config.openai_temperature)
        ELSE /\ result.provider = "openai"
             /\ result.model = config.openai_model
             /\ result.api_key = config.openai_api_key
             /\ result.max_tokens = config.openai_max_tokens
             /\ result.temperature = config.openai_temperature

\* C25: every ConceptBrief that passes validation has tone_keywords and
\* genre_tags that are each non-empty, hold at most 3 entries, and whose
\* entries are trimmed and non-blank; for an input of more than 3 tags the
\* stored list is exactly the first 3 input tags, trimmed
C25_StoredTagsNonEmpty ==
  tg_pc = "stored" =>
    LET stored == tg_stored[1]
    IN  /\ Len(stored) >= 1
        /\ Len(stored) <= 3
        /\ \A i \in 1..Len(stored) : ~stored[i].padded /\ stored[i].core # ""
        /\ Len(tg_input) > 3 =>
             stored = [i \in 1..3 |-> [core |-> tg_input[i].core, padded |-> FALSE]]

\* C26: every StoryArc that passes validation has exactly 3 emotional beats;
\* an answer whose emotional_beats do not end up as three beats in the
\* validated arc is rejected
C26_ExactlyThreeBeats ==
  eb_pc = "stored" => Len(eb_stored[1]) = 3

\* the request gave a creative_guidelines mapping and execute has run its
\* input validation
RuntimeValidated ==
  /\ ds_input.creative_guidelines = "mapping"
  /\ "validate" \in DraftStages

\* C27: CreativeGuidelines accepts an integer target_runtime_seconds v if
\* and only if 5 <= v <= 300 (4 and 301 rejected, 5 and 300 accepted): a
\* request whose other fields are valid passes input validation exactly for
\* those v, and a request rejected for its v ends draft_story_arc with the
\* input-validation error envelope before any CMS or LLM call
C27_RuntimeAcceptedIffInRange ==
  RuntimeValidated =>
    LET v == ds_input.target_runtime_seconds[1]
        rejected == /\ ds_failure # None
                    /\ ds_failure[1].stage = "validate"
    IN  /\ (v < 5 \/ v > 300) =>
             /\ rejected
             /\ ds_pc = "returned"
             /\ ds_result = Some(DraftErrorEnvelope("StoryArcGenerationError",
                                                    "Input validation failed"))
             /\ ds_trace = << "validate" >>
             /\ \A t \in GatherTasks : fetch[t] = "idle"
             /\ llm_calls = 0
        /\ (v >= 5 /\ v <= 300 /\ ds_input.concept_ok
              /\ ds_input.trace_headers \in {"absent", "mapping"}) => ~rejected
        /\ v \in {4, 301} => rejected
        /\ (v \in {5, 300} /\ ds_input.concept_ok) => ~rejected

\* a request whose only fault is a target_runtime_seconds of 301 was turned
\* down at validation
C27_Witness ==
  /\ RuntimeValidated
  /\ ds_input.concept_ok
  /\ ds_input.target_runtime_seconds = Some(301)
  /\ ds_pc = "returned"
  /\ ds_failure # None
  /\ ds_failure[1].stage = "validate"

\* the exit code the claim gives for what the test phases found: 2 with a
\* critical issue (brain service down, WebSocket test failed, no service
\* healthy, more than half of the tests failed), else 1 with a failed test,
\* else 0
ClaimedExitCode ==
  LET outcome == rp_outcome[1]
      statuses == << outcome.websocket_connection, outcome.error_handling,
                     IF Cardinality(outcome.healthy) >= 2 THEN "passed" ELSE "failed" >>
                  \o (IF outcome.character_creation = "absent" THEN << >>
                      ELSE << outcome.character_creation >>)
      failed == Cardinality({ i \in 1..Len(statuses) : statuses[i] = "failed" })
      critical == \/ "brain_service" \notin outcome.healthy
                  \/ outcome.websocket_connection = "failed"
                  \/ outcome.healthy = {}
                  \/ 2 * failed > Len(statuses)
  IN  IF critical THEN 2 ELSE IF failed > 0 THEN 1 ELSE 0

\* C28 as stated: the exit code of the report generator is a function of
\* the finished report only: 2 if the critical-issues list is non-empty,
\* otherwise 1 if a test failed, otherwise 0; no run of main() ends with
\* another exit code
C28_ExitCodeFromReportOnly ==
  rp_pc = "exited" =>
    /\ rp_exit[1] \in {0, 1, 2}
    /\ rp_report # None => rp_exit[1] = ClaimedExitCode

\* C28 as amended: a run of main() in which run_comprehensive_tests,
\* print_report or save_report raises an exception ends with exit code 3,
\* whatever the report holds; every other run ends with 2 if the
\* critical-issues list of its report is non-empty, otherwise 1 if a test
\* failed, otherwise 0
C28_ExitCodeOrGeneratorFailure ==
  rp_pc = "exited" =>
    IF rp_raised # None
    THEN rp_exit = Some(3)
    ELSE /\ rp_report # None
         /\ rp_exit = Some(ClaimedExitCode)

\* a report without critical issue or failed test could not be saved, and
\* main() ended with exit code 3
C28_Witness ==
  /\ rp_pc = "exited"
  /\ rp_raised = Some("save_report")
  /\ rp_report[1].summary.failed_tests = 0
  /\ rp_report[1].critical_issues = << >>
  /\ rp_exit = Some(3)

\* the sum of duration_seconds over the returned video_segments
ReturnedRuntime ==
  SumSeq([i \in 1..Len(sy_result[1].video_segments) |->
            sy_result[1].video_segments[i].duration_seconds])

\* C29 as stated: for every request and every duration_per_segment the sum
\* of duration_seconds over the returned video_segments never exceeds the
\* 12.0 s max_total_runtime passed to the grouping
C29_RuntimeWithinBudget ==
  sy_pc = "done" => ReturnedRuntime <= MaxTotalRuntime

\* C29 as amended: the sum of duration_seconds over the returned
\* video_segments is at most 12.0 s for every duration_per_segment d <= 12.0
\* (for d > 0 at most floor(12.0 / d) and at most 3 segments are returned;
\* for d <= 0 the grouping counts 3.0 s per segment while every returned
\* duration_seconds is d itself); for d > 12.0 the grouping still yields one
\* segment, so a request with frames has exactly one segment spec and the
\* one segment it may return lasts d, more than the budget
C29_RuntimeWithinBudgetUpToFloor ==
  sy_pc = "done" =>
    LET n == Len(sy_result[1].video_segments)
    IN  /\ ReturnedRuntime = n * duration
        /\ duration <= MaxTotalRuntime => ReturnedRuntime <= MaxTotalRuntime
        /\ (duration > 0 /\ duration <= MaxTotalRuntime) =>
             (n <= MaxTotalRuntime \div duration /\ n <= 3)
        /\ duration <= 0 => n <= 3
        /\ duration > MaxTotalRuntime =>
             /\ n <= 1
             /\ Len(segment_specs) =
                  (IF arguments.generated_frames = << >> THEN 0 ELSE 1)

\* a request with frames of three scenes and 12.5 s per segment returned
\* its one segment, 12.5 s long
C29_Witness ==
  /\ sy_pc = "done"
  /\ duration = 125
  /\ Len(arguments.generated_frames) = 3
  /\ Len(sy_result[1].video_segments) = 1
  /\ ReturnedRuntime = 125

\* the chunks the grouping returned for the request, segment k being built
\* from chunk k
RequestChunks ==
  group_frames_into_segments(arguments.generated_frames, DefaultChunkSize,
                             duration, MaxTotalRuntime)

\* the description of the first storyboard entry with the frame's id
StoryboardPrompt(frame) ==
  LET hits == { i \in 1..Len(arguments.storyboard_frames) :
                  arguments.storyboard_frames[i].frame_id = frame.frame_id }
  IN  IF hits = {} THEN ""
      ELSE arguments.storyboard_frames[CHOOSE i \in hits : \A j \in hits : i <= j].description

\* C30: each synthesized segment is built from its own chunk's frames: the
\* primary and secondary image URLs passed to the provider are the image
\* URLs of the first and second frame of that segment's chunk, the prompt
\* comes from the storyboard entry of that first frame, and
\* associated_frames lists exactly that chunk's frame ids; also for a
\* generated_frames list in which two frames carry the same frame_id
C30_SegmentBuiltFromOwnChunk ==
  sy_pc \in {"loop", "break", "done"} =>
    /\ \A k \in 1..Len(provider_calls) :
         LET chunk == RequestChunks[k]
             call  == provider_calls[k]
         IN  /\ call.primary_image_url = chunk[1].image_url
             /\ call.secondary_image_url =
                  (IF Len(chunk) > 1 THEN Some(chunk[2].image_url) ELSE None)
             /\ call.prompt = StoryboardPrompt(chunk[1])
    /\ \A k \in 1..Len(video_segments) :
         video_segments[k].associated_frames =
           [j \in 1..Len(RequestChunks[k]) |-> RequestChunks[k][j].frame_id]
====
